---------------------------- MODULE Spec2Model ----------------------------
(***************************************************************************)
(* Spatial layout analyser of docuflow: thinning, reading order, tree      *)
(* building and the build_spatial_tree pipeline, modelled as pure          *)
(* operators over element records and applied by the actions of one        *)
(* specification per entry point.                                          *)
(*                                                                         *)
(* An element is a record with the keys the extractor emits (label,        *)
(* bbox_x1..bbox_y2, page_number, text_content, text_full) plus the keys   *)
(* later stages add.  A key that a Python dict may lack is a sequence of   *)
(* length 0 (absent) or 1 (present).  Text is a sequence of tokens.  The   *)
(* field src is the identity of the dict object: the positions, in the     *)
(* caller's list, of the input elements the record stands for.  locals     *)
(* holds the local variables of a call that is modelled step by step.      *)
(*                                                                         *)
(* Real-valued quantities are kept exact as scaled integers: a name        *)
(* ending in 2 or 4 holds twice or four times the value.                   *)
(***************************************************************************)
EXTENDS Integers, Sequences, FiniteSets, TLC

VARIABLES elements, options, locals, result, pc

vars == <<elements, options, locals, result, pc>>

(***************************************************************************)
(* Bounds                                                                  *)
(***************************************************************************)
MaxNodes == 3
MaxPage == 2

(***************************************************************************)
(* Generic helpers                                                         *)
(***************************************************************************)
Min2(a, b) == IF a <= b THEN a ELSE b
Max2(a, b) == IF a >= b THEN a ELSE b
Abs(a) == IF a >= 0 THEN a ELSE 0 - a

Range(s) == {s[i] : i \in DOMAIN s}

RECURSIVE SeqMin(_)
SeqMin(s) == IF Len(s) = 1 THEN s[1] ELSE Min2(s[1], SeqMin(Tail(s)))

RECURSIVE SeqMax(_)
SeqMax(s) == IF Len(s) = 1 THEN s[1] ELSE Max2(s[1], SeqMax(Tail(s)))

RECURSIVE Flatten(_)
Flatten(ss) == IF ss = <<>> THEN <<>> ELSE Head(ss) \o Flatten(Tail(ss))

\* str.join: the items separated by sep
RECURSIVE Join(_, _)
Join(items, sep) ==
    IF items = <<>> THEN <<>>
    ELSE IF Len(items) = 1 THEN items[1]
    ELSE items[1] \o <<sep>> \o Join(Tail(items), sep)

\* sorted(ints): insertion into an already sorted sequence
RECURSIVE InsertSorted(_, _)
InsertSorted(v, s) ==
    IF s = <<>> THEN <<v>>
    ELSE IF v < Head(s) THEN <<v>> \o s
    ELSE <<Head(s)>> \o InsertSorted(v, Tail(s))

RECURSIVE SortInts(_)
SortInts(s) == IF s = <<>> THEN <<>>
               ELSE InsertSorted(s[Len(s)], SortInts(SubSeq(s, 1, Len(s) - 1)))

\* statistics.median, doubled
Median2(s) ==
    LET t == SortInts(s)
        n == Len(t)
    IN IF n % 2 = 1 THEN 2 * t[(n + 1) \div 2]
       ELSE t[n \div 2] + t[n \div 2 + 1]

(***************************************************************************)
(* Elements                                                                *)
(***************************************************************************)
\* a dict as extract_layout_coordinates_v2 emits it; no stage has run yet
Elem(label, x1, y1, x2, y2, page, tc, tf) ==
    [label |-> label,
     bbox_x1 |-> x1, bbox_y1 |-> y1, bbox_x2 |-> x2, bbox_y2 |-> y2,
     page_number |-> page,
     text_content |-> tc, text_full |-> tf,
     merged_from |-> <<>>, original_labels |-> <<>>,
     zone |-> <<>>, zone_priority |-> <<>>, id |-> <<>>,
     spatial_level |-> <<>>, final_level |-> <<>>, level_source |-> <<>>,
     spatial_score |-> <<>>,
     src |-> <<>>]

(***************************************************************************)
(* spatial/thinning.py                                                     *)
(***************************************************************************)
BarrierLabels ==
    {"title", "subtitle", "heading", "sub_title", "equation", "formula",
     "image", "figure", "table", "tablecaption", "tablefootnote",
     "imagecaption", "caption"}

calculate_vertical_gap(node1, node2) == node2.bbox_y1 - node1.bbox_y2

\* overlap ratio as the pair <<overlap_width, min_width>>; <<0, 1>> is 0.0
thin_horizontal_overlap(node1, node2) ==
    LET overlap_start == Max2(node1.bbox_x1, node2.bbox_x1)
        overlap_end == Min2(node1.bbox_x2, node2.bbox_x2)
        min_width == Min2(node1.bbox_x2 - node1.bbox_x1,
                          node2.bbox_x2 - node2.bbox_x1)
    IN IF overlap_end <= overlap_start THEN <<0, 1>>
       ELSE IF min_width > 0 THEN <<overlap_end - overlap_start, min_width>>
       ELSE <<0, 1>>

PositiveHeights(nodes) ==
    SelectSeq([i \in DOMAIN nodes |-> nodes[i].bbox_y2 - nodes[i].bbox_y1],
              LAMBDA h : h > 0)

\* twice the median line height; 40.0 when no node has a positive height
thin_median_line_height2(nodes) ==
    IF PositiveHeights(nodes) = <<>> THEN 80 ELSE Median2(PositiveHeights(nodes))

\* sorted(text_nodes, key=(page_number, bbox_y1)), stable
RECURSIVE InsertByPageY(_, _)
InsertByPageY(n, s) ==
    IF s = <<>> THEN <<n>>
    ELSE IF \/ n.page_number < Head(s).page_number
            \/ /\ n.page_number = Head(s).page_number
               /\ n.bbox_y1 < Head(s).bbox_y1
         THEN <<n>> \o s
         ELSE <<Head(s)>> \o InsertByPageY(n, Tail(s))

RECURSIVE SortByPageY(_)
SortByPageY(s) ==
    IF s = <<>> THEN <<>>
    ELSE InsertByPageY(s[Len(s)], SortByPageY(SubSeq(s, 1, Len(s) - 1)))

\* four times the gap threshold estimated from the data
estimate_gap_threshold_dynamic4(text_nodes, median2) ==
    LET sorted_nodes == SortByPageY(text_nodes)
        pairs == SelectSeq([i \in 1..(Len(sorted_nodes) - 1) |-> i],
                     LAMBDA i :
                        /\ sorted_nodes[i].page_number
                              = sorted_nodes[i + 1].page_number
                        /\ calculate_vertical_gap(sorted_nodes[i],
                                                  sorted_nodes[i + 1]) >= 0)
        gaps == [k \in DOMAIN pairs |->
                    calculate_vertical_gap(sorted_nodes[pairs[k]],
                                           sorted_nodes[pairs[k] + 1])]
        gaps_sorted == SortInts(gaps)
        idx == (Len(gaps_sorted) * 7) \div 10
    IN IF gaps # <<>>
       THEN 4 * gaps_sorted[Min2(idx, Len(gaps_sorted) - 1) + 1]
       ELSE 3 * median2

can_merge_text_blocks(node1, node2, gap_threshold4) ==
    LET gap == calculate_vertical_gap(node1, node2)
        overlap == thin_horizontal_overlap(node1, node2)
        same_left == Abs(node1.bbox_x1 - node2.bbox_x1) <= 10
        indent == node2.bbox_x1 - node1.bbox_x1
    IN /\ node1.label = "text" /\ node2.label = "text"
       /\ node1.page_number = node2.page_number
       /\ ~(gap < 0)
       /\ ~(4 * gap > gap_threshold4)
       /\ ~(2 * overlap[1] < overlap[2] /\ ~same_left)
       /\ ~(indent >= 30)

\* the texts of the nodes that have one (empty text is falsy)
NonEmptyTexts(texts) == SelectSeq(texts, LAMBDA t : t # <<>>)

\* merge_nodes_content giving the merged node the label of its parts
merge_nodes_content_TextLabel(nodes) ==
    [label |-> "text",
     bbox_x1 |-> SeqMin([i \in DOMAIN nodes |-> nodes[i].bbox_x1]),
     bbox_y1 |-> SeqMin([i \in DOMAIN nodes |-> nodes[i].bbox_y1]),
     bbox_x2 |-> SeqMax([i \in DOMAIN nodes |-> nodes[i].bbox_x2]),
     bbox_y2 |-> SeqMax([i \in DOMAIN nodes |-> nodes[i].bbox_y2]),
     page_number |-> nodes[1].page_number,
     text_content |->
        Join(NonEmptyTexts([i \in DOMAIN nodes |-> nodes[i].text_content]), " "),
     text_full |->
        Join(NonEmptyTexts([i \in DOMAIN nodes |-> nodes[i].text_full]), "\n"),
     merged_from |-> <<Len(nodes)>>,
     original_labels |-> [i \in DOMAIN nodes |-> nodes[i].label],
     zone |-> <<>>, zone_priority |-> <<>>, id |-> <<>>,
     spatial_level |-> <<>>, final_level |-> <<>>, level_source |-> <<>>,
     spatial_score |-> <<>>,
     src |-> Flatten([i \in DOMAIN nodes |-> nodes[i].src])]

\* merge_nodes_content reading the page from a key the nodes do not carry,
\* so that the default 1 is used
merge_nodes_content_DefaultPage(nodes) ==
    [label |-> "paragraph",
     bbox_x1 |-> SeqMin([i \in DOMAIN nodes |-> nodes[i].bbox_x1]),
     bbox_y1 |-> SeqMin([i \in DOMAIN nodes |-> nodes[i].bbox_y1]),
     bbox_x2 |-> SeqMax([i \in DOMAIN nodes |-> nodes[i].bbox_x2]),
     bbox_y2 |-> SeqMax([i \in DOMAIN nodes |-> nodes[i].bbox_y2]),
     page_number |-> 1,
     text_content |->
        Join(NonEmptyTexts([i \in DOMAIN nodes |-> nodes[i].text_content]), " "),
     text_full |->
        Join(NonEmptyTexts([i \in DOMAIN nodes |-> nodes[i].text_full]), "\n"),
     merged_from |-> <<Len(nodes)>>,
     original_labels |-> [i \in DOMAIN nodes |-> nodes[i].label],
     zone |-> <<>>, zone_priority |-> <<>>, id |-> <<>>,
     spatial_level |-> <<>>, final_level |-> <<>>, level_source |-> <<>>,
     spatial_score |-> <<>>,
     src |-> Flatten([i \in DOMAIN nodes |-> nodes[i].src])]

merge_nodes_content(nodes) ==
    [label |-> "paragraph",
     bbox_x1 |-> SeqMin([i \in DOMAIN nodes |-> nodes[i].bbox_x1]),
     bbox_y1 |-> SeqMin([i \in DOMAIN nodes |-> nodes[i].bbox_y1]),
     bbox_x2 |-> SeqMax([i \in DOMAIN nodes |-> nodes[i].bbox_x2]),
     bbox_y2 |-> SeqMax([i \in DOMAIN nodes |-> nodes[i].bbox_y2]),
     page_number |-> nodes[1].page_number,
     text_content |->
        Join(NonEmptyTexts([i \in DOMAIN nodes |-> nodes[i].text_content]), " "),
     text_full |->
        Join(NonEmptyTexts([i \in DOMAIN nodes |-> nodes[i].text_full]), "\n"),
     merged_from |-> <<Len(nodes)>>,
     original_labels |-> [i \in DOMAIN nodes |-> nodes[i].label],
     zone |-> <<>>, zone_priority |-> <<>>, id |-> <<>>,
     spatial_level |-> <<>>, final_level |-> <<>>, level_source |-> <<>>,
     spatial_score |-> <<>>,
     src |-> Flatten([i \in DOMAIN nodes |-> nodes[i].src])]

\* the scanline with a barrier that is emitted without closing the open group
RECURSIVE ScanGroups_BarrierKeepsGroup(_, _, _, _)
ScanGroups_BarrierKeepsGroup(page_nodes, i, gap_threshold4, barrier_labels) ==
    IF i = 0 THEN [closed |-> <<>>, current |-> <<>>]
    ELSE
      LET st == ScanGroups_BarrierKeepsGroup(page_nodes, i - 1, gap_threshold4,
                                             barrier_labels)
          node == page_nodes[i]
          flushed == IF st.current # <<>>
                     THEN Append(st.closed, st.current) ELSE st.closed
      IN IF node.label \in barrier_labels
         THEN [closed |-> Append(st.closed, <<i>>), current |-> st.current]
         ELSE IF node.label = "text"
         THEN IF st.current = <<>>
              THEN [closed |-> st.closed, current |-> <<i>>]
              ELSE IF can_merge_text_blocks(
                         page_nodes[st.current[Len(st.current)]],
                         node, gap_threshold4)
                   THEN [closed |-> st.closed, current |-> Append(st.current, i)]
                   ELSE [closed |-> Append(st.closed, st.current),
                         current |-> <<i>>]
         ELSE [closed |-> Append(flushed, <<i>>), current |-> <<>>]

\* the scanline comparing a node with the first node of the open group
RECURSIVE ScanGroups_CompareFirst(_, _, _, _)
ScanGroups_CompareFirst(page_nodes, i, gap_threshold4, barrier_labels) ==
    IF i = 0 THEN [closed |-> <<>>, current |-> <<>>]
    ELSE
      LET st == ScanGroups_CompareFirst(page_nodes, i - 1, gap_threshold4,
                                        barrier_labels)
          node == page_nodes[i]
          flushed == IF st.current # <<>>
                     THEN Append(st.closed, st.current) ELSE st.closed
      IN IF node.label \in barrier_labels
         THEN [closed |-> Append(flushed, <<i>>), current |-> <<>>]
         ELSE IF node.label = "text"
         THEN IF st.current = <<>>
              THEN [closed |-> st.closed, current |-> <<i>>]
              ELSE IF can_merge_text_blocks(page_nodes[st.current[1]],
                                            node, gap_threshold4)
                   THEN [closed |-> st.closed, current |-> Append(st.current, i)]
                   ELSE [closed |-> Append(st.closed, st.current),
                         current |-> <<i>>]
         ELSE [closed |-> Append(flushed, <<i>>), current |-> <<>>]

\* the scanline: merge_groups (closed groups of indices into page_nodes,
\* with the open current_group appended at the end) after the first i nodes
RECURSIVE ScanGroups(_, _, _, _)
ScanGroups(page_nodes, i, gap_threshold4, barrier_labels) ==
    IF i = 0 THEN [closed |-> <<>>, current |-> <<>>]
    ELSE
      LET st == ScanGroups(page_nodes, i - 1, gap_threshold4, barrier_labels)
          node == page_nodes[i]
          flushed == IF st.current # <<>>
                     THEN Append(st.closed, st.current) ELSE st.closed
      IN IF node.label \in barrier_labels
         THEN [closed |-> Append(flushed, <<i>>), current |-> <<>>]
         ELSE IF node.label = "text"
         THEN IF st.current = <<>>
              THEN [closed |-> st.closed, current |-> <<i>>]
              ELSE IF can_merge_text_blocks(
                         page_nodes[st.current[Len(st.current)]],
                         node, gap_threshold4)
                   THEN [closed |-> st.closed, current |-> Append(st.current, i)]
                   ELSE [closed |-> Append(st.closed, st.current),
                         current |-> <<i>>]
         ELSE [closed |-> Append(flushed, <<i>>), current |-> <<>>]

merge_groups_of(page_nodes, gap_threshold4, barrier_labels) ==
    LET st == ScanGroups(page_nodes, Len(page_nodes), gap_threshold4,
                         barrier_labels)
    IN IF st.current # <<>> THEN Append(st.closed, st.current) ELSE st.closed

merge_text_blocks_in_page(page_nodes, gap_threshold4, barrier_labels) ==
    LET groups == merge_groups_of(page_nodes, gap_threshold4, barrier_labels)
    IN [g \in DOMAIN groups |->
          IF Len(groups[g]) = 1
          THEN page_nodes[groups[g][1]]
          ELSE merge_nodes_content(
                  [k \in DOMAIN groups[g] |-> page_nodes[groups[g][k]]])]

\* pages[page_num]: the nodes of one page, in input order
PageNodes(nodes, page_num) ==
    SelectSeq(nodes, LAMBDA n : n.page_number = page_num)

RECURSIVE SetToSeq(_)
SetToSeq(S) == IF S = {} THEN <<>>
               ELSE LET x == CHOOSE x \in S : TRUE
                    IN <<x>> \o SetToSeq(S \ {x})

\* the pages in the order in which the input first mentions them
RECURSIVE FirstSeenPages(_)
FirstSeenPages(nodes) ==
    IF nodes = <<>> THEN <<>>
    ELSE LET rest == FirstSeenPages(SubSeq(nodes, 1, Len(nodes) - 1))
             p == nodes[Len(nodes)].page_number
         IN IF p \in Range(rest) THEN rest ELSE Append(rest, p)

\* pages.keys() without the sort
SortedPages_InsertionOrder(nodes) == FirstSeenPages(nodes)

\* sorted(pages.keys())
SortedPages(nodes) ==
    SortInts(SetToSeq({nodes[i].page_number : i \in DOMAIN nodes}))

\* four times the gap threshold hierarchical_thinning settles on
thin_gap_threshold4(nodes, opts) ==
    IF opts.use_dynamic_gap
    THEN estimate_gap_threshold_dynamic4(
            SelectSeq(nodes, LAMBDA n : n.label = "text"),
            thin_median_line_height2(nodes))
    ELSE 2 * thin_median_line_height2(nodes) * opts.gap_threshold_multiplier

hierarchical_thinning(nodes, opts) ==
    IF nodes = <<>> THEN <<>>
    ELSE IF ~opts.merge_text_to_paragraphs THEN nodes
    ELSE
      LET gap_threshold4 == thin_gap_threshold4(nodes, opts)
          barrier_labels == IF opts.preserve_barriers THEN BarrierLabels ELSE {}
          page_order == SortedPages(nodes)
      IN Flatten([k \in DOMAIN page_order |->
                    merge_text_blocks_in_page(PageNodes(nodes, page_order[k]),
                                              gap_threshold4, barrier_labels)])

(***************************************************************************)
(* Specification of hierarchical_thinning: the caller builds a node list   *)
(* and calls the function once.                                            *)
(***************************************************************************)
\* bboxes of text lines: three lines stepping right by 20 px, one far below
ThinBoxes ==
    {<<0, 0, 100, 10, "L1">>, <<20, 12, 120, 22, "L2">>,
     <<40, 24, 140, 34, "L3">>, <<0, 500, 100, 510, "L4">>}

ThinNodeDomain ==
    {Elem("text", b[1], b[2], b[3], b[4], p,
          IF t THEN <<b[5]>> ELSE <<>>, IF t THEN <<b[5], "body">> ELSE <<>>) :
        b \in ThinBoxes, p \in 1..MaxPage, t \in BOOLEAN}
    \cup {Elem(l, 0, 12, 100, 22, p, <<"E">>, <<"E">>) :
              l \in {"equation", "footer"}, p \in 1..MaxPage}

ThinOptions ==
    {[preserve_barriers |-> TRUE, merge_text_to_paragraphs |-> TRUE,
      use_dynamic_gap |-> TRUE, gap_threshold_multiplier |-> 2],
     [preserve_barriers |-> TRUE, merge_text_to_paragraphs |-> TRUE,
      use_dynamic_gap |-> FALSE, gap_threshold_multiplier |-> 2],
     [preserve_barriers |-> TRUE, merge_text_to_paragraphs |-> TRUE,
      use_dynamic_gap |-> FALSE, gap_threshold_multiplier |-> 5],
     [preserve_barriers |-> FALSE, merge_text_to_paragraphs |-> TRUE,
      use_dynamic_gap |-> FALSE, gap_threshold_multiplier |-> 5],
     [preserve_barriers |-> TRUE, merge_text_to_paragraphs |-> FALSE,
      use_dynamic_gap |-> TRUE, gap_threshold_multiplier |-> 2]}

NoOptions == [preserve_barriers |-> TRUE, merge_text_to_paragraphs |-> TRUE,
              use_dynamic_gap |-> TRUE, gap_threshold_multiplier |-> 2]

InitThin ==
    /\ elements = <<>>
    /\ options = NoOptions
    /\ locals = <<>>
    /\ result = <<>>
    /\ pc = "input"

\* the caller appends one more node to the list it will pass
AddNode ==
    /\ pc = "input"
    /\ Len(elements) < MaxNodes
    /\ \E n \in ThinNodeDomain :
          elements' = Append(elements,
                             [n EXCEPT !.src = <<Len(elements) + 1>>])
    /\ UNCHANGED <<options, locals, result, pc>>

RunThinning ==
    /\ pc = "input"
    /\ \E o \in ThinOptions :
          /\ options' = o
          /\ result' = hierarchical_thinning(elements, o)
    /\ pc' = "done"
    /\ UNCHANGED <<elements, locals>>

NextThin == AddNode \/ RunThinning

SpecThin == InitThin /\ [][NextThin]_vars

(***************************************************************************)
(* Properties of hierarchical_thinning                                     *)
(***************************************************************************)
Merging == pc = "done" /\ options.merge_text_to_paragraphs

\* positions, in the caller's list, of the elements of page p, in order
PagePositions(p) ==
    SelectSeq([i \in DOMAIN elements |-> i],
              LAMBDA i : elements[i].page_number = p)

IsBarrier(e) == e.label \in BarrierLabels

\* some output element is a paragraph
SomeParagraph == \E k \in DOMAIN result : result[k].label = "paragraph"

\* C1 as stated: no barrier is absorbed into a paragraph, every barrier is
\* emitted standalone and unchanged, every constituent of a paragraph has
\* label text, and two text elements with a barrier anywhere between them in
\* the input order never share a paragraph.
C1_BarrierAnywhereBetween ==
    (Merging /\ options.preserve_barriers) =>
       /\ \A i \in DOMAIN elements :
             IsBarrier(elements[i]) =>
                \E k \in DOMAIN result : result[k] = elements[i]
       /\ \A k \in DOMAIN result :
             result[k].label = "paragraph" =>
                \A i \in Range(result[k].src) : elements[i].label = "text"
       /\ \A k \in DOMAIN result : \A i, j \in Range(result[k].src) :
             \A b \in (i + 1)..(j - 1) : ~IsBarrier(elements[b])

\* C1 (amended): as C1, but only a barrier of the same page separates two
\* text elements; a barrier of another page that lies between them in the
\* input order does not, since pages are merged independently.
C1_BarrierNeverAbsorbed ==
    (Merging /\ options.preserve_barriers) =>
       /\ \A i \in DOMAIN elements :
             IsBarrier(elements[i]) =>
                \E k \in DOMAIN result : result[k] = elements[i]
       /\ \A k \in DOMAIN result :
             result[k].label = "paragraph" =>
                \A i \in Range(result[k].src) : elements[i].label = "text"
       /\ \A k \in DOMAIN result : \A i, j \in Range(result[k].src) :
             \A b \in (i + 1)..(j - 1) :
                ~(IsBarrier(elements[b])
                  /\ elements[b].page_number = elements[i].page_number)

\* two text elements that the merge predicate accepts, kept apart by a
\* barrier of their page that stands between them
C1_Witness ==
    /\ Merging /\ options.preserve_barriers
    /\ Len(elements) = 3 /\ Len(result) = 3
    /\ IsBarrier(elements[2])
    /\ can_merge_text_blocks(elements[1], elements[3],
                             thin_gap_threshold4(elements, options))
    /\ elements[2].page_number = elements[1].page_number

\* C2: every output element has the page number of each input element it
\* stands for: the constituents of a paragraph share one page, which is the
\* paragraph's, and an unmerged element keeps its page number.
C2_SamePage ==
    pc = "done" =>
       \A k \in DOMAIN result : \A i \in Range(result[k].src) :
          elements[i].page_number = result[k].page_number

\* a paragraph on one page next to a text element of another page that the
\* geometry alone would have merged into it
C2_Witness ==
    /\ Merging
    /\ \E k \in DOMAIN result :
          /\ result[k].label = "paragraph"
          /\ result[k].page_number # 1
    /\ \E i \in 1..(Len(elements) - 1) :
          /\ elements[i].page_number # elements[i + 1].page_number
          /\ can_merge_text_blocks(
                elements[i],
                [elements[i + 1] EXCEPT
                    !.page_number = elements[i].page_number],
                thin_gap_threshold4(elements, options))

\* the runs of the scanline, stated on the input; join is the text join
\* the paragraph is held to
RunsReplaced(join(_, _)) ==
    LET T4 == thin_gap_threshold4(elements, options)
        Mergeable(i, j) == can_merge_text_blocks(elements[i], elements[j], T4)
    IN /\ \A i \in DOMAIN elements :
             Cardinality({k \in DOMAIN result : i \in Range(result[k].src)}) = 1
       /\ \A k \in DOMAIN result :
             LET s == result[k].src
                 pos == PagePositions(elements[s[1]].page_number)
                 run == [m \in DOMAIN s |-> elements[s[m]]]
             IN /\ \E a \in DOMAIN pos :
                      /\ a + Len(s) - 1 <= Len(pos)
                      /\ s = SubSeq(pos, a, a + Len(s) - 1)
                      /\ a > 1 => ~Mergeable(pos[a - 1], s[1])
                      /\ a + Len(s) - 1 < Len(pos) =>
                            ~Mergeable(s[Len(s)], pos[a + Len(s)])
                /\ \A m \in 1..(Len(s) - 1) : Mergeable(s[m], s[m + 1])
                /\ Len(s) = 1 => result[k] = elements[s[1]]
                /\ Len(s) > 1 =>
                      /\ result[k].label = "paragraph"
                      /\ result[k].merged_from = <<Len(s)>>
                      /\ result[k].bbox_x1
                            = SeqMin([m \in DOMAIN s |-> run[m].bbox_x1])
                      /\ result[k].bbox_y1
                            = SeqMin([m \in DOMAIN s |-> run[m].bbox_y1])
                      /\ result[k].bbox_x2
                            = SeqMax([m \in DOMAIN s |-> run[m].bbox_x2])
                      /\ result[k].bbox_y2
                            = SeqMax([m \in DOMAIN s |-> run[m].bbox_y2])
                      /\ result[k].text_content
                            = join([m \in DOMAIN s |-> run[m].text_content],
                                   " ")
                      /\ result[k].text_full
                            = join([m \in DOMAIN s |-> run[m].text_full],
                                   "\n")

JoinNonEmpty(texts, sep) == Join(NonEmptyTexts(texts), sep)

\* C3 as stated: each maximal run of consecutive text elements of a page in
\* which every element merges with the one before it becomes one paragraph
\* with merged_from, the union bbox and the space / newline join of the
\* texts of the whole run; every other element passes through unchanged.
C3_JoinOfWholeRun == Merging => RunsReplaced(Join)

\* C3 (amended): the same, except that the joins skip the constituents whose
\* text is empty, so an empty text adds no separator.
C3_RunsBecomeParagraphs == Merging => RunsReplaced(JoinNonEmpty)

\* a run of three in which the third element merges with the second but
\* would not merge with the first, one of them without text
C3_Witness ==
    /\ Merging
    /\ Len(elements) = 3 /\ Len(result) = 1
    /\ ~can_merge_text_blocks(elements[1], elements[3],
                              thin_gap_threshold4(elements, options))
    /\ \E i \in DOMAIN elements : elements[i].text_content = <<>>
    /\ \E i \in DOMAIN elements : elements[i].text_content # <<>>

\* C7 as stated: any two input elements that are not merged together
\* appear in the output in their input order, whatever the page numbers.
C7_InputOrderKept ==
    pc = "done" =>
       \A k, kk \in DOMAIN result :
          k # kk =>
             \A i \in Range(result[k].src), j \in Range(result[kk].src) :
                (i < j) <=> (k < kk)

PagesNonDecreasing ==
    \A i \in 1..(Len(elements) - 1) :
       elements[i].page_number <= elements[i + 1].page_number

\* C7 (amended): with merging on, the output lists the pages in ascending
\* page number, and within one page any two elements not merged together
\* keep their input order, a paragraph standing where its first constituent
\* stood; so the input order is kept when the page numbers of the input
\* never decrease.  With merging off the input is returned as it is.
C7_OrderKeptWithinPages ==
    pc = "done" =>
       /\ ~options.merge_text_to_paragraphs => result = elements
       /\ options.merge_text_to_paragraphs =>
             \A k, kk \in DOMAIN result :
                k < kk =>
                   /\ result[k].page_number <= result[kk].page_number
                   /\ result[k].page_number = result[kk].page_number =>
                         \A i \in Range(result[k].src),
                            j \in Range(result[kk].src) : i < j
       /\ PagesNonDecreasing =>
             \A k, kk \in DOMAIN result :
                k # kk =>
                   \A i \in Range(result[k].src),
                      j \in Range(result[kk].src) : (i < j) <=> (k < kk)

\* a paragraph of page 1 whose constituents are separated, in the input, by
\* an element of page 2
C7_Witness ==
    /\ Merging
    /\ Len(elements) = 3 /\ Len(result) = 2
    /\ result[1].src = <<1, 3>>
    /\ result[2].src = <<2>>

(***************************************************************************)
(* spatial/reading_order.py                                                *)
(*                                                                         *)
(* A node of the graph is the position of its element in the list passed   *)
(* to get_reading_order; the id the code assigns to it is elem_(pos - 1).  *)
(* graph[n] is the list of the targets of the edges leaving n, in the      *)
(* order in which the code appended them.                                  *)
(***************************************************************************)
MaxElems == 3

ZONE_PRIORITY(zone) ==
    CASE zone = "title_block" -> 0
      [] zone = "author_block" -> 1
      [] zone = "abstract" -> 2
      [] zone = "section_heading" -> 3
      [] zone = "main_text" -> 4
      [] zone = "figure" -> 5
      [] zone = "table" -> 5
      [] zone = "caption" -> 6
      [] zone = "equation" -> 4
      [] zone = "footnote" -> 8
      [] zone = "header" -> 9
      [] zone = "footer" -> 10
      [] zone = "page_number" -> 10
      [] zone = "sidebar" -> 7
      [] zone = "unknown" -> 5
      [] OTHER -> 5

\* twice the centre of the bbox
center_x2(e) == e.bbox_x1 + e.bbox_x2
center_y2(e) == e.bbox_y1 + e.bbox_y2

\* overlap ratios as pairs <<overlap, shorter side>>; <<0, 1>> is 0.0
calculate_horizontal_overlap(a, b) ==
    LET overlap_start == Max2(a.bbox_x1, b.bbox_x1)
        overlap_end == Min2(a.bbox_x2, b.bbox_x2)
        min_width == Min2(a.bbox_x2 - a.bbox_x1, b.bbox_x2 - b.bbox_x1)
    IN IF overlap_end <= overlap_start THEN <<0, 1>>
       ELSE IF min_width <= 0 THEN <<0, 1>>
       ELSE <<overlap_end - overlap_start, min_width>>

calculate_vertical_overlap(a, b) ==
    LET overlap_start == Max2(a.bbox_y1, b.bbox_y1)
        overlap_end == Min2(a.bbox_y2, b.bbox_y2)
        min_height == Min2(a.bbox_y2 - a.bbox_y1, b.bbox_y2 - b.bbox_y1)
    IN IF overlap_end <= overlap_start THEN <<0, 1>>
       ELSE IF min_height <= 0 THEN <<0, 1>>
       ELSE <<overlap_end - overlap_start, min_height>>

\* elem.get('zone_priority', 5)
zone_priority_of(e) == IF e.zone_priority = <<>> THEN 5 ELSE e.zone_priority[1]

\* the ladder without its first rung, the comparison of the zone priorities
should_read_before_NoZone(a, b) ==
    LET h == calculate_horizontal_overlap(a, b)
        v == calculate_vertical_overlap(a, b)
    IN IF 10 * h[1] > 3 * h[2] /\ Abs(center_y2(a) - center_y2(b)) > 10
       THEN center_y2(a) < center_y2(b)
       ELSE IF 10 * v[1] > 3 * v[2] /\ Abs(center_x2(a) - center_x2(b)) > 10
       THEN center_x2(a) < center_x2(b)
       ELSE IF a.bbox_y2 < b.bbox_y1 THEN TRUE
       ELSE IF 2 * Abs(a.bbox_y1 - b.bbox_y1) < a.bbox_y2 - a.bbox_y1
       THEN center_x2(a) < center_x2(b)
       ELSE center_y2(a) < center_y2(b)

should_read_before(a, b) ==
    LET h == calculate_horizontal_overlap(a, b)
        v == calculate_vertical_overlap(a, b)
    IN IF zone_priority_of(a) # zone_priority_of(b)
       THEN zone_priority_of(a) < zone_priority_of(b)
       ELSE IF 10 * h[1] > 3 * h[2] /\ Abs(center_y2(a) - center_y2(b)) > 10
       THEN center_y2(a) < center_y2(b)
       ELSE IF 10 * v[1] > 3 * v[2] /\ Abs(center_x2(a) - center_x2(b)) > 10
       THEN center_x2(a) < center_x2(b)
       ELSE IF a.bbox_y2 < b.bbox_y1 THEN TRUE
       ELSE IF 2 * Abs(a.bbox_y1 - b.bbox_y1) < a.bbox_y2 - a.bbox_y1
       THEN center_x2(a) < center_x2(b)
       ELSE center_y2(a) < center_y2(b)

\* elem['id'] = f"elem_{i}" where the element has no id
AssignIds(elems) ==
    [i \in DOMAIN elems |->
        IF elems[i].id = <<>> THEN [elems[i] EXCEPT !.id = <<i - 1>>]
        ELSE elems[i]]

\* elem['zone_priority'] = ZONE_PRIORITY.get(elem.get('zone', 'unknown'), 5)
AssignZonePriority(elems) ==
    [i \in DOMAIN elems |->
        [elems[i] EXCEPT !.zone_priority =
            <<ZONE_PRIORITY(IF elems[i].zone = <<>> THEN "unknown"
                            ELSE elems[i].zone[1])>>]]

\* the double loop over the pairs i < j, from the pair (i, j) on
RECURSIVE AddPairEdges(_, _, _, _)
AddPairEdges(elems, i, j, graph) ==
    IF i > Len(elems) THEN graph
    ELSE IF j > Len(elems) THEN AddPairEdges(elems, i + 1, i + 2, graph)
    ELSE AddPairEdges(elems, i, j + 1,
            IF should_read_before(elems[i], elems[j])
            THEN [graph EXCEPT ![i] = Append(@, j)]
            ELSE [graph EXCEPT ![j] = Append(@, i)])

\* the elements as build_reading_order_graph leaves them
PreparedElements(elems, include_zone_priority) ==
    IF include_zone_priority THEN AssignZonePriority(AssignIds(elems))
    ELSE AssignIds(elems)

build_reading_order_graph(elems, include_zone_priority) ==
    AddPairEdges(PreparedElements(elems, include_zone_priority), 1, 2,
                 [n \in DOMAIN elems |-> <<>>])

\* path.index(node)
IndexIn(path, node) == CHOOSE k \in DOMAIN path :
                          path[k] = node /\ \A m \in 1..(k - 1) : path[m] # node

\* dfs(node, path) of detect_cycles; st holds color and cycles
RECURSIVE dfs(_, _, _, _)
RECURSIVE dfs_edges(_, _, _, _, _)
dfs(graph, node, path, st) ==
    LET entered == [st EXCEPT !.color[node] = "GRAY"]
        after == dfs_edges(graph, node, Append(path, node), 1, entered)
    IN [after EXCEPT !.color[node] = "BLACK"]

dfs_edges(graph, node, path, k, st) ==
    IF k > Len(graph[node]) THEN st
    ELSE LET next_node == graph[node][k]
         IN dfs_edges(graph, node, path, k + 1,
               IF st.color[next_node] = "GRAY"
               THEN [st EXCEPT !.cycles =
                        Append(@, SubSeq(path, IndexIn(path, next_node),
                                         Len(path)))]
               ELSE IF st.color[next_node] = "WHITE"
               THEN dfs(graph, next_node, path, st)
               ELSE st)

\* the loop over the nodes of the graph that starts a dfs at each white node
RECURSIVE dfs_roots(_, _, _)
dfs_roots(graph, n, st) ==
    IF n > Len(graph) THEN st
    ELSE dfs_roots(graph, n + 1,
            IF st.color[n] = "WHITE" THEN dfs(graph, n, <<>>, st) ELSE st)

\* detect_cycles that never reports a cycle
detect_cycles_Blind(graph) == <<>>

detect_cycles(graph) ==
    dfs_roots(graph, 1, [color |-> [n \in DOMAIN graph |-> "WHITE"],
                         cycles |-> <<>>]).cycles

\* the choice of the edge with score >= worst_score in place of >: the last
\* edge of maximal score
worst_edge_LastOnTie(cycle, elems) ==
    LET target(i) == cycle[(i % Len(cycle)) + 1]
        score(i) == elems[cycle[i]].bbox_y1 - elems[target(i)].bbox_y1
        worst == CHOOSE i \in DOMAIN cycle :
                    /\ \A j \in DOMAIN cycle : score(j) <= score(i)
                    /\ \A j \in (i + 1)..Len(cycle) : score(j) < score(i)
    IN <<cycle[worst], target(worst)>>

\* the edge of the cycle that one pass of the loop of break_cycles removes:
\* the first edge whose source.y1 - target.y1 is maximal
worst_edge(cycle, elems) ==
    LET target(i) == cycle[(i % Len(cycle)) + 1]
        score(i) == elems[cycle[i]].bbox_y1 - elems[target(i)].bbox_y1
        worst == CHOOSE i \in DOMAIN cycle :
                    /\ \A j \in DOMAIN cycle : score(j) <= score(i)
                    /\ \A j \in 1..(i - 1) : score(j) < score(i)
    IN <<cycle[worst], target(worst)>>

\* a pass that turns the edge round instead of removing it
break_one_cycle_Reverse(graph, elems) ==
    LET edge == worst_edge(detect_cycles(graph)[1], elems)
    IN [graph EXCEPT ![edge[1]] = SelectSeq(@, LAMBDA t : t # edge[2]),
                     ![edge[2]] = Append(@, edge[1])]

\* one pass of the while loop of break_cycles, entered with a cycle
break_one_cycle(graph, elems) ==
    LET edge == worst_edge(detect_cycles(graph)[1], elems)
    IN [graph EXCEPT ![edge[1]] = SelectSeq(@, LAMBDA t : t # edge[2])]

RECURSIVE break_cycles(_, _)
break_cycles(graph, elems) ==
    IF detect_cycles(graph) = <<>> THEN graph
    ELSE break_cycles(break_one_cycle(graph, elems), elems)

\* get_sort_key(a) <= get_sort_key(b), the key being (y1, x1)
KeyLeq(elems, a, b) ==
    \/ elems[a].bbox_y1 < elems[b].bbox_y1
    \/ /\ elems[a].bbox_y1 = elems[b].bbox_y1
       /\ elems[a].bbox_x1 <= elems[b].bbox_x1

\* list.sort(key=get_sort_key) after appending node to a sorted list
RECURSIVE InsertByKey(_, _, _)
InsertByKey(elems, node, queue) ==
    IF queue = <<>> THEN <<node>>
    ELSE IF KeyLeq(elems, Head(queue), node)
         THEN <<Head(queue)>> \o InsertByKey(elems, node, Tail(queue))
         ELSE <<node>> \o queue

RECURSIVE SortByKey(_, _)
SortByKey(elems, nodes) ==
    IF nodes = <<>> THEN <<>>
    ELSE InsertByKey(elems, nodes[Len(nodes)],
                     SortByKey(elems, SubSeq(nodes, 1, Len(nodes) - 1)))

in_degree_of(graph) ==
    [n \in DOMAIN graph |->
        Cardinality({<<m, k>> \in (DOMAIN graph) \X (DOMAIN graph) :
                        k \in DOMAIN graph[m] /\ graph[m][k] = n})]

\* the loop over the edges that queues a target at every edge, whatever its
\* in-degree has come down to
RECURSIVE release_targets_EveryEdge(_, _, _, _, _)
release_targets_EveryEdge(graph, elems, node, k, st) ==
    IF k > Len(graph[node]) THEN st
    ELSE LET target == graph[node][k]
             degree == st.in_degree[target] - 1
         IN release_targets_EveryEdge(graph, elems, node, k + 1,
               [in_degree |-> [st.in_degree EXCEPT ![target] = degree],
                queue |-> InsertByKey(elems, target, st.queue)])

\* the loop over the edges of the node just taken from the queue
RECURSIVE release_targets(_, _, _, _, _)
release_targets(graph, elems, node, k, st) ==
    IF k > Len(graph[node]) THEN st
    ELSE LET target == graph[node][k]
             degree == st.in_degree[target] - 1
         IN release_targets(graph, elems, node, k + 1,
               [in_degree |-> [st.in_degree EXCEPT ![target] = degree],
                queue |-> IF degree = 0
                          THEN InsertByKey(elems, target, st.queue)
                          ELSE st.queue])

\* the while loop of Kahn's algorithm
RECURSIVE kahn(_, _, _, _)
kahn(graph, elems, st, sorted) ==
    IF st.queue = <<>> THEN sorted
    ELSE kahn(graph, elems,
              release_targets(graph, elems, Head(st.queue), 1,
                              [in_degree |-> st.in_degree,
                               queue |-> Tail(st.queue)]),
              Append(sorted, Head(st.queue)))

\* topological_sort that orders by position alone
topological_sort_GeometryOnly(graph, elems) ==
    SortByKey(elems, [n \in DOMAIN graph |-> n])

topological_sort(graph, elems) ==
    LET in_degree == in_degree_of(graph)
        ready == SelectSeq([n \in DOMAIN graph |-> n],
                           LAMBDA n : in_degree[n] = 0)
        sorted == kahn(graph, elems,
                       [in_degree |-> in_degree,
                        queue |-> SortByKey(elems, ready)], <<>>)
        remaining == SelectSeq([n \in DOMAIN graph |-> n],
                               LAMBDA n : n \notin Range(sorted))
    IN IF Len(sorted) < Len(graph)
       THEN sorted \o SortByKey(elems, remaining)
       ELSE sorted

\* the graph get_reading_order hands to topological_sort
graph_to_sort(elems, include_zone_priority, break_cycles_enabled) ==
    LET prepared == PreparedElements(elems, include_zone_priority)
        graph == build_reading_order_graph(elems, include_zone_priority)
    IN IF break_cycles_enabled /\ detect_cycles(graph) # <<>>
       THEN break_cycles(graph, prepared)
       ELSE graph

get_reading_order(elems, include_zone_priority, break_cycles_enabled) ==
    IF Len(elems) <= 1 THEN elems
    ELSE LET prepared == PreparedElements(elems, include_zone_priority)
             sorted_ids ==
                topological_sort(
                   graph_to_sort(elems, include_zone_priority,
                                 break_cycles_enabled),
                   prepared)
         IN [k \in DOMAIN sorted_ids |-> prepared[sorted_ids[k]]]

(***************************************************************************)
(* Specification of get_reading_order: the caller builds an element list   *)
(* and calls the function; the graph is built, the loop of break_cycles    *)
(* runs one pass per step, and topological_sort ends the call.             *)
(***************************************************************************)
\* a left and a right column of two rows each, and three nested boxes that
\* share their top-left corner
ColumnBoxes ==
    {<<0, 0, 380, 40>>, <<0, 60, 380, 100>>,
     <<420, 0, 800, 40>>, <<420, 60, 800, 100>>}

NestedBoxes == {<<0, 0, 10, 10>>, <<0, 0, 10, 20>>, <<0, 0, 10, 30>>}

ROElem(b, zone) ==
    [Elem("text", b[1], b[2], b[3], b[4], 1, <<"t">>, <<"t">>)
        EXCEPT !.zone = zone]

RODomain ==
    {ROElem(b, <<>>) : b \in ColumnBoxes \cup NestedBoxes}
    \cup {ROElem(<<0, 60, 380, 100>>, <<"title_block">>),
          ROElem(<<0, 0, 10, 30>>, <<"title_block">>)}

ROOptions ==
    [include_zone_priority : BOOLEAN, break_cycles_enabled : BOOLEAN]

InitRO ==
    /\ elements = <<>>
    /\ options = [include_zone_priority |-> TRUE, break_cycles_enabled |-> TRUE]
    /\ locals = <<>>
    /\ result = <<>>
    /\ pc = "input"

AddElement ==
    /\ pc = "input"
    /\ Len(elements) < MaxElems
    /\ \E e \in RODomain :
          elements' = Append(elements,
                             [e EXCEPT !.src = <<Len(elements) + 1>>])
    /\ UNCHANGED <<options, locals, result, pc>>

\* get_reading_order up to the graph: the early returns, the ids, the graph
CallReadingOrder ==
    /\ pc = "input"
    /\ \E o \in ROOptions :
          /\ options' = o
          /\ IF Len(elements) <= 1
             THEN /\ result' = elements
                  /\ pc' = "done"
                  /\ UNCHANGED locals
             ELSE /\ locals' =
                        [elems |-> PreparedElements(elements,
                                                    o.include_zone_priority),
                         built |-> build_reading_order_graph(
                                      elements, o.include_zone_priority),
                         graph |-> build_reading_order_graph(
                                      elements, o.include_zone_priority)]
                  /\ pc' = "graph_built"
                  /\ UNCHANGED result
    /\ UNCHANGED elements

\* one pass of the while loop of break_cycles
BreakCycle ==
    /\ pc = "graph_built"
    /\ options.break_cycles_enabled
    /\ detect_cycles(locals.graph) # <<>>
    /\ locals' = [locals EXCEPT
                     !.graph = break_one_cycle(locals.graph, locals.elems)]
    /\ UNCHANGED <<elements, options, result, pc>>

\* topological_sort and the mapping of the ids back to the elements
TopologicalSort ==
    /\ pc = "graph_built"
    /\ ~(options.break_cycles_enabled /\ detect_cycles(locals.graph) # <<>>)
    /\ result' = LET sorted_ids == topological_sort(locals.graph, locals.elems)
                 IN [k \in DOMAIN sorted_ids |-> locals.elems[sorted_ids[k]]]
    /\ pc' = "done"
    /\ UNCHANGED <<elements, options, locals>>

NextRO == AddElement \/ CallReadingOrder \/ BreakCycle \/ TopologicalSort

SpecRO == InitRO /\ [][NextRO]_vars

(***************************************************************************)
(* Properties of get_reading_order                                         *)
(***************************************************************************)
Sorted == pc = "done" /\ Len(elements) >= 2

HasEdge(graph, m, n) == \E k \in DOMAIN graph[m] : graph[m][k] = n

\* some nodes of the graph form a directed cycle
HasCycle(graph) ==
    \E len \in 1..Len(graph) :
       \E c \in [1..len -> DOMAIN graph] :
          \A i \in 1..len : HasEdge(graph, c[i], c[(i % len) + 1])

\* the steps of the call agree with the function applied as a whole
StepsAgreeWithCall ==
    pc = "done" =>
       result = get_reading_order(elements, options.include_zone_priority,
                                  options.break_cycles_enabled)

\* C4 as stated: for a before b in the returned list, the pairwise decision
\* taken for the pair (the edge of the graph as built) never puts b before
\* a, also when a cycle had to be cut.
C4_NoPairContradicted ==
    (Sorted /\ options.break_cycles_enabled) =>
       \A p, q \in DOMAIN result :
          p < q => ~HasEdge(locals.built, result[q].src[1], result[p].src[1])

\* C4 (amended): for a before b in the returned list, the pairwise decision
\* puts b before a only if break_cycles removed that edge; when the
\* decisions form no cycle nothing is removed and no decision is
\* contradicted.
C4_OnlyCutEdgesContradicted ==
    (Sorted /\ options.break_cycles_enabled) =>
       /\ \A p, q \in DOMAIN result :
             p < q =>
                ~HasEdge(locals.graph, result[q].src[1], result[p].src[1])
       /\ ~HasCycle(locals.built) => locals.graph = locals.built

\* the pairwise decisions formed a cycle, an edge was cut, and the returned
\* list contradicts the decision that the cut edge stood for
C4_Witness ==
    /\ Sorted /\ options.break_cycles_enabled
    /\ locals.graph # locals.built
    /\ \E p, q \in DOMAIN result :
          /\ p < q
          /\ HasEdge(locals.built, result[q].src[1], result[p].src[1])

\* C5: the graph that break_cycles returns, and so the graph handed to
\* topological_sort when cycle breaking is enabled, has no directed cycle.
C5_AcyclicAfterBreaking ==
    /\ (Sorted /\ options.break_cycles_enabled) => ~HasCycle(locals.graph)
    /\ pc = "graph_built" =>
          ~HasCycle(break_cycles(locals.built, locals.elems))

\* a graph that was built with a cycle has been sorted
C5_Witness ==
    /\ Sorted /\ options.break_cycles_enabled
    /\ HasCycle(locals.built)
    /\ ~HasCycle(locals.graph)

IsLeft(e) == e.bbox_x2 <= 380
IsRight(e) == e.bbox_x1 >= 420

\* the input is a two-column page: distinct boxes of the two columns, both
\* columns present, no zone set
TwoColumnPage ==
    /\ \A i \in DOMAIN elements :
          /\ <<elements[i].bbox_x1, elements[i].bbox_y1,
               elements[i].bbox_x2, elements[i].bbox_y2>> \in ColumnBoxes
          /\ elements[i].zone = <<>>
    /\ \A i, j \in DOMAIN elements :
          i # j => [elements[i] EXCEPT !.src = <<>>]
                      # [elements[j] EXCEPT !.src = <<>>]
    /\ \E i \in DOMAIN elements : IsLeft(elements[i])
    /\ \E i \in DOMAIN elements : IsRight(elements[i])

\* C10: on a two-column page the returned list holds the left column in
\* increasing y, then the right column in increasing y.
C10_ColumnMajorOrder ==
    (Sorted /\ TwoColumnPage) =>
       \A p, q \in DOMAIN result :
          p < q =>
             /\ ~(IsRight(result[p]) /\ IsLeft(result[q]))
             /\ (IsLeft(result[p]) <=> IsLeft(result[q])) =>
                   result[p].bbox_y1 < result[q].bbox_y1

(***************************************************************************)
(* spatial/spatial_tree_builder.py: build_tree_from_elements               *)
(*                                                                         *)
(* A tree is the sequence of its TreeNode objects in creation order, the   *)
(* root first; children holds the positions of the child objects.          *)
(***************************************************************************)
MaxTreeElems == 3

\* the level with a fallback of 0
elem_level_FallbackZero(elem) ==
    IF elem.final_level # <<>> THEN elem.final_level[1]
    ELSE IF elem.spatial_level # <<>> THEN elem.spatial_level[1]
    ELSE 0

\* the level a node gets: final_level, else spatial_level, else 3
elem_level(elem) ==
    IF elem.final_level # <<>> THEN elem.final_level[1]
    ELSE IF elem.spatial_level # <<>> THEN elem.spatial_level[1]
    ELSE 3

RootNode ==
    [node_id |-> <<"root">>, title |-> <<"Document">>, level |-> -1,
     page_number |-> 1, content |-> <<>>, children |-> <<>>,
     bbox |-> <<>>, label |-> <<>>, spatial_score |-> 0, src |-> <<>>]

\* the TreeNode made for one element; node_counter numbers the node
TreeNode(elem, node_counter) ==
    [node_id |-> <<"node", node_counter>>,
     title |-> elem.text_content,
     level |-> elem_level(elem),
     page_number |-> elem.page_number,
     content |-> elem.text_full,
     children |-> <<>>,
     bbox |-> <<elem.bbox_x1, elem.bbox_y1, elem.bbox_x2, elem.bbox_y2>>,
     label |-> <<elem.label>>,
     spatial_score |->
        IF elem.spatial_score # <<>> THEN elem.spatial_score[1] ELSE 0,
     src |-> elem.src]

\* while len(stack) > 1 and stack[-1].level >= level: stack.pop()
RECURSIVE pop_stack(_, _, _)
pop_stack(nodes, stack, level) ==
    IF Len(stack) > 1 /\ nodes[stack[Len(stack)]].level >= level
    THEN pop_stack(nodes, SubSeq(stack, 1, Len(stack) - 1), level)
    ELSE stack

append_child_First(nodes, parent, child) ==
    [nodes EXCEPT ![parent].children = <<child>> \o @]

\* parent.children.append(node)
append_child(nodes, parent, child) ==
    [nodes EXCEPT ![parent].children = Append(@, child)]

\* the for loop over the elements, from element i on
RECURSIVE tree_loop(_, _, _, _)
tree_loop(elems, i, nodes, stack) ==
    IF i > Len(elems) THEN nodes
    ELSE LET node == TreeNode(elems[i], i - 1)
             popped == pop_stack(nodes, stack, node.level)
             parent == popped[Len(popped)]
             at == Len(nodes) + 1
         IN tree_loop(elems, i + 1,
                      append_child(Append(nodes, node), parent, at),
                      Append(popped, at))

build_tree_from_elements(elems) == tree_loop(elems, 1, <<RootNode>>, <<1>>)

\* parent before its children, children left to right
RECURSIVE pre_order(_, _)
RECURSIVE pre_order_children(_, _, _)
pre_order(nodes, n) == <<n>> \o pre_order_children(nodes, nodes[n].children, 1)

pre_order_children(nodes, children, k) ==
    IF k > Len(children) THEN <<>>
    ELSE pre_order(nodes, children[k])
            \o pre_order_children(nodes, children, k + 1)

\* the non-root nodes in pre-order
NonRootWalk(nodes) == Tail(pre_order(nodes, 1))

(***************************************************************************)
(* SpecTree: a caller hands build_tree_from_elements an ordered list of    *)
(* elements, with or without levels.                                       *)
(***************************************************************************)
TreeLevels == {<<>>, <<0>>, <<1>>, <<2>>, <<5>>}

TreeElemDomain ==
    {[Elem("text", 0, 0, 100, 10, 1, <<"t">>, <<"t">>)
         EXCEPT !.final_level = fl, !.spatial_level = sl] :
       fl \in TreeLevels, sl \in {<<>>, <<4>>}}

InitTree ==
    /\ elements = <<>>
    /\ options = <<>>
    /\ locals = <<>>
    /\ result = <<>>
    /\ pc = "input"

AddTreeElement ==
    /\ pc = "input"
    /\ Len(elements) < MaxTreeElems
    /\ \E e \in TreeElemDomain :
          elements' = Append(elements,
                             [e EXCEPT !.src = <<Len(elements) + 1>>])
    /\ UNCHANGED <<options, locals, result, pc>>

BuildTree ==
    /\ pc = "input"
    /\ result' = build_tree_from_elements(elements)
    /\ pc' = "built"
    /\ UNCHANGED <<elements, options, locals>>

NextTree == AddTreeElement \/ BuildTree

SpecTree == InitTree /\ [][NextTree]_vars

(***************************************************************************)
(* Properties of build_tree_from_elements                                  *)
(***************************************************************************)
\* C8: the pre-order walk of the non-root nodes visits the input elements,
\* each once, in input order, and the node ids are node_0, node_1, ... in
\* that order.
C8_PreOrderIsInputOrder ==
    pc = "built" =>
       LET walk == NonRootWalk(result)
       IN /\ Len(walk) = Len(elements)
          /\ Len(result) = Len(elements) + 1
          /\ \A k \in DOMAIN walk :
                /\ result[walk[k]].src = elements[k].src
                /\ result[walk[k]].node_id = <<"node", k - 1>>
                /\ result[walk[k]].title = elements[k].text_content
          /\ \A j, k \in DOMAIN walk : j # k => walk[j] # walk[k]

\* a tree in which a node below the root has two children: the stack was
\* popped back to that node for the second child
C8_Witness ==
    /\ pc = "built"
    /\ \E n \in DOMAIN result :
          /\ n > 1
          /\ Len(result[n].children) >= 2

(***************************************************************************)
(* Text                                                                    *)
(*                                                                         *)
(* A text is a sequence of tokens: words, runs of "#", digit strings, html *)
(* tags, and the separators " " and "\n".  The functions below work on    *)
(* the tokens as the regular expressions of the code work on the           *)
(* characters, for the tokens of Vocabulary.                               *)
(***************************************************************************)
Vocabulary ==
    {"#", "##", "######", " ", "\n", "1", "2", "3", "7", "page",
     "Header", "header", "Intro", "body", "Figure", "Abstract", "<center>",
     "L1", "L2", "L3", "L4", "t", "text", "title"}

SpaceTokens == {" ", "\n"}
DigitTokens == {"1", "2", "3", "7"}
TagTokens == {"<center>"}

\* len(m.group(1)) for a token that is a run of one to six "#"
HashCount(tok) ==
    CASE tok = "#" -> 1
      [] tok = "##" -> 2
      [] tok = "######" -> 6
      [] OTHER -> 0

\* str.lower() of a token
Lower(tok) ==
    CASE tok = "Header" -> "header"
      [] tok = "Intro" -> "intro"
      [] tok = "Figure" -> "figure"
      [] tok = "Abstract" -> "abstract"
      [] tok = "L1" -> "l1"
      [] tok = "L2" -> "l2"
      [] tok = "L3" -> "l3"
      [] tok = "L4" -> "l4"
      [] OTHER -> tok

\* len() of a token
TokenChars(tok) ==
    CASE tok \in {"#", " ", "\n", "1", "2", "3", "7", "t"} -> 1
      [] tok \in {"##", "L1", "L2", "L3", "L4"} -> 2
      [] tok \in {"page", "body", "text"} -> 4
      [] tok \in {"Intro", "title"} -> 5
      [] tok \in {"######", "Header", "header", "Figure"} -> 6
      [] tok \in {"Abstract", "<center>"} -> 8
      [] OTHER -> 1

RECURSIVE LStrip(_)
LStrip(text) ==
    IF text # <<>> /\ Head(text) \in SpaceTokens THEN LStrip(Tail(text))
    ELSE text

RECURSIVE RStrip(_)
RStrip(text) ==
    IF text # <<>> /\ text[Len(text)] \in SpaceTokens
    THEN RStrip(SubSeq(text, 1, Len(text) - 1))
    ELSE text

\* str.strip()
Strip(text) == RStrip(LStrip(text))

RECURSIVE TextChars(_)
TextChars(text) ==
    IF text = <<>> THEN 0 ELSE TokenChars(Head(text)) + TextChars(Tail(text))

\* re.sub(r'\b(page\s*)?\d+\b', '', text): a digit string goes, together with
\* a "page" and the spaces right before it
RECURSIVE RemovePageNumbers(_)
RemovePageNumbers(text) ==
    IF text = <<>> THEN <<>>
    ELSE IF Head(text) \in DigitTokens THEN RemovePageNumbers(Tail(text))
    ELSE IF /\ Head(text) = "page"
            /\ LStrip(Tail(text)) # <<>>
            /\ Head(LStrip(Tail(text))) \in DigitTokens
         THEN RemovePageNumbers(Tail(LStrip(Tail(text))))
    ELSE <<Head(text)>> \o RemovePageNumbers(Tail(text))

\* re.sub(r'\s+', ' ', text)
RECURSIVE CollapseWhitespace(_)
CollapseWhitespace(text) ==
    IF text = <<>> THEN <<>>
    ELSE IF Head(text) \in SpaceTokens
         THEN <<" ">> \o CollapseWhitespace(LStrip(text))
    ELSE <<Head(text)>> \o CollapseWhitespace(Tail(text))

(***************************************************************************)
(* spatial/filters.py                                                      *)
(***************************************************************************)
normalize_text_for_matching(text) ==
    IF text = <<>> THEN <<>>
    ELSE LET normalized == [i \in DOMAIN Strip(text) |-> Lower(Strip(text)[i])]
         IN Strip(CollapseWhitespace(RemovePageNumbers(normalized)))

\* the elements analyze_cross_page_repetitions files under a normalized text
Occurrences(elems, normalized) ==
    SelectSeq(elems,
              LAMBDA e : /\ TextChars(Strip(e.text_content)) >= 3
                         /\ normalize_text_for_matching(e.text_content) # <<>>
                         /\ normalize_text_for_matching(e.text_content)
                               = normalized)

RECURSIVE SeqSum(_)
SeqSum(s) == IF s = <<>> THEN 0 ELSE Head(s) + SeqSum(Tail(s))

\* the zone of the RepetitionInfo kept for a normalized text, "none" when the
\* text is on fewer than min_pages pages; no element carries page_height, so
\* the average y is taken relative to 1000
repetition_zone(elems, normalized, min_pages) ==
    LET occurrences == Occurrences(elems, normalized)
        pages == {occurrences[i].page_number : i \in DOMAIN occurrences}
        sum_y == SeqSum([i \in DOMAIN occurrences |-> occurrences[i].bbox_y1])
        count == Len(occurrences)
    IN IF Cardinality(pages) < min_pages THEN "none"
       ELSE IF 100 * sum_y < 15 * 1000 * count THEN "header"
       ELSE IF 100 * sum_y > 85 * 1000 * count THEN "footer"
       ELSE "unknown"

\* the test of the filter loop: the normalized text is one to filter
is_repeated(elems, e) ==
    repetition_zone(elems, normalize_text_for_matching(e.text_content), 3)
       \in {"header", "footer"}

\* <<filtered, removed>>
filter_repeated_elements(elems) ==
    <<SelectSeq(elems, LAMBDA e : ~is_repeated(elems, e)),
      SelectSeq(elems, LAMBDA e : is_repeated(elems, e))>>

\* int(v * num / den) for v >= 0
ScaleInt(v, num, den) == (v * num) \div den

\* <<width, height>>
estimate_page_dims(elems) ==
    IF elems = <<>> THEN <<800, 1000>>
    ELSE LET max_x == Max2(0, SeqMax([i \in DOMAIN elems |-> elems[i].bbox_x2]))
             max_y == Max2(0, SeqMax([i \in DOMAIN elems |-> elems[i].bbox_y2]))
         IN <<IF max_x > 0 THEN ScaleInt(max_x, 105, 100) ELSE 800,
              IF max_y > 0 THEN ScaleInt(max_y, 105, 100) ELSE 1000>>

elem_area(e) == Abs(e.bbox_x2 - e.bbox_x1) * Abs(e.bbox_y2 - e.bbox_y1)

\* area_ratio < 0.001 or area_ratio > 0.5, with area_ratio 0 on an empty page
is_noise(page_area, e) ==
    IF page_area > 0
    THEN \/ 1000 * elem_area(e) < page_area
         \/ 2 * elem_area(e) > page_area
    ELSE TRUE

filter_noise_elements(elems) ==
    LET page_dims == estimate_page_dims(elems)
        page_area == page_dims[1] * page_dims[2]
    IN <<SelectSeq(elems, LAMBDA e : ~is_noise(page_area, e)),
         SelectSeq(elems, LAMBDA e : is_noise(page_area, e))>>

\* apply_all_filters with the elements the noise filter removed left out of
\* removed_by_filter
apply_all_filters_NoiseUncounted(elems) ==
    LET repeated == filter_repeated_elements(elems)
        noise == filter_noise_elements(repeated[1])
    IN <<noise[1], repeated[2], <<>>>>

\* filter_repeated and filter_noise on, filter_margins off:
\* <<current, removed by the repetition filter, removed by the noise filter>>
apply_all_filters(elems) ==
    LET repeated == filter_repeated_elements(elems)
        noise == filter_noise_elements(repeated[1])
    IN <<noise[1], repeated[2], noise[2]>>

(***************************************************************************)
(* spatial/zone_classifier.py                                              *)
(*                                                                         *)
(* A classifier gives "" for None.  Only the zone is kept: each rule's     *)
(* confidence is a constant of the rule, folded into the order in which    *)
(* classify_zone_heuristic tries the rules.                                *)
(***************************************************************************)
classify_by_label(e) ==
    CASE e.label = "title" -> "title_block"
      [] e.label \in {"sub_title", "subtitle", "heading"} -> "section_heading"
      [] e.label = "header" -> "header"
      [] e.label = "figure" -> "figure"
      [] e.label = "table" -> "table"
      [] e.label \in {"equation", "formula"} -> "equation"
      [] e.label = "caption" -> "caption"
      [] e.label = "footnote" -> "footnote"
      [] e.label = "footer" -> "footer"
      [] e.label = "page_number" -> "page_number"
      [] OTHER -> ""

\* re.sub of the html tags, then strip()
strip_html_tags(text) ==
    IF text = <<>> THEN <<>>
    ELSE Strip(SelectSeq(text, LAMBDA tok : tok \notin TagTokens))

\* ^(word)\s*\d+ ignoring case; with_space for ^(word)\s+\d+
word_then_number(text, words, with_space) ==
    /\ text # <<>>
    /\ Lower(Head(text)) \in words
    /\ LStrip(Tail(text)) # <<>>
    /\ Head(LStrip(Tail(text))) \in DigitTokens
    /\ with_space => Head(Tail(text)) \in SpaceTokens

CaptionWords ==
    {"figure", "fig", "fig.", "table", "tab", "tab.", "image", "img", "img.",
     "chart", "graph"}

SectionWords == {"chapter", "section", "part"}

classify_by_text_pattern(e) ==
    LET raw_text == Strip(e.text_content)
        text == strip_html_tags(raw_text)
    IN IF raw_text = <<>> THEN ""
       ELSE IF \/ word_then_number(raw_text, CaptionWords, FALSE)
               \/ word_then_number(text, CaptionWords, FALSE)
               \/ /\ Head(raw_text) = "<center>"
                  /\ word_then_number(LStrip(Tail(raw_text)),
                                      CaptionWords, FALSE)
            THEN "caption"
       ELSE IF \/ Len(text) = 1 /\ text[1] \in DigitTokens
               \/ word_then_number(text, {"page", "trang"}, FALSE)
            THEN "page_number"
       ELSE IF TextChars(text) < 200
               /\ word_then_number(text, SectionWords, TRUE)
            THEN "section_heading"
       ELSE IF text # <<>> /\ Lower(Head(text)) = "abstract" THEN "abstract"
       ELSE ""

\* v / page > num / 100, with the ratio 0 when page is not positive
rel_gt(v, page, num) == IF page > 0 THEN 100 * v > num * page ELSE 0 > num

\* v / page < num / 100, with the ratio 0 when page is not positive
rel_lt(v, page, num) == IF page > 0 THEN 100 * v < num * page ELSE 0 < num

classify_by_position(e, page_dims) ==
    LET page_width == page_dims[1]
        page_height == page_dims[2]
        elem_height == e.bbox_y2 - e.bbox_y1
    IN IF /\ rel_gt(e.bbox_y1, page_height, 92)
          /\ rel_lt(elem_height, page_height, 3)
          /\ rel_gt(e.bbox_x1 + e.bbox_x2, page_width, 80)
          /\ rel_lt(e.bbox_x1 + e.bbox_x2, page_width, 120)
       THEN "page_number"
       ELSE IF /\ rel_gt(e.bbox_y1, page_height, 90)
               /\ rel_lt(elem_height, page_height, 8)
            THEN "footer"
       ELSE IF /\ rel_lt(e.bbox_y2, page_height, 10)
               /\ rel_lt(elem_height, page_height, 8)
            THEN "header"
       ELSE IF /\ rel_gt(e.bbox_y1, page_height, 85)
               /\ rel_lt(elem_height, page_height, 12)
            THEN "footnote_low"
       ELSE ""

classify_by_geometry(e, page_dims) ==
    LET width == e.bbox_x2 - e.bbox_x1
        height == e.bbox_y2 - e.bbox_y1
    IN IF width <= 0 \/ height <= 0 THEN ""
       ELSE IF e.label = "figure" THEN "figure"
       ELSE IF /\ 10 * width > 7 * height
               /\ rel_lt(height, page_dims[2], 10)
               /\ rel_gt(width, page_dims[1], 30)
               /\ e.label \in {"equation", "formula"}
            THEN "equation"
       ELSE ""

\* layout_elements is the list the repetitions are counted on; the footnote
\* rule of classify_by_position has confidence 0.6 and yields to the
\* geometry rules
classify_zone_heuristic(e, page_dims, layout_elements) ==
    LET repeated == repetition_zone(
                       layout_elements,
                       normalize_text_for_matching(e.text_content), 3)
        label_result == classify_by_label(e)
        pattern_result == classify_by_text_pattern(e)
        position_result == classify_by_position(e, page_dims)
        geometry_result == classify_by_geometry(e, page_dims)
    IN IF repeated \in {"header", "footer"} THEN repeated
       ELSE IF label_result # "" THEN label_result
       ELSE IF pattern_result # "" THEN pattern_result
       ELSE IF position_result \notin {"", "footnote_low"}
            THEN position_result
       ELSE IF geometry_result # "" THEN geometry_result
       ELSE IF position_result = "footnote_low" THEN "footnote"
       ELSE "main_text"

\* each element is copied with its zone set
classify_zones_batch(elems, page_dims, layout_elements) ==
    [i \in DOMAIN elems |->
        [elems[i] EXCEPT
            !.zone = <<classify_zone_heuristic(elems[i], page_dims,
                                               layout_elements)>>]]

(***************************************************************************)
(* spatial/hierarchy.py                                                    *)
(*                                                                         *)
(* A score is a fraction <<numerator, denominator>> in lowest terms with a *)
(* positive denominator.                                                   *)
(***************************************************************************)
RECURSIVE GCD(_, _)
GCD(a, b) == IF b = 0 THEN a ELSE GCD(b, a % b)

Frac(n, d) ==
    LET g == GCD(Abs(n), d) IN IF g = 0 THEN <<0, 1>> ELSE <<n \div g, d \div g>>

FracAdd(f, g) == Frac(f[1] * g[2] + g[1] * f[2], f[2] * g[2])
FracMul(f, g) == Frac(f[1] * g[1], f[2] * g[2])
FracGt(f, g) == f[1] * g[2] > g[1] * f[2]
FracMin(f, g) == IF FracGt(f, g) THEN g ELSE f

\* <<width, height>>: int(max * 1.1)
get_page_dimensions_from_elements(elems) ==
    IF elems = <<>> THEN <<800, 1000>>
    ELSE <<ScaleInt(SeqMax([i \in DOMAIN elems |-> elems[i].bbox_x2]), 11, 10),
           ScaleInt(SeqMax([i \in DOMAIN elems |-> elems[i].bbox_y2]), 11, 10)>>

vertical_hierarchy_score(e, page_height) ==
    IF page_height = 0 THEN Frac(1, 2)
    ELSE Frac(page_height - e.bbox_y1, page_height)

size_importance_score(e, page_width, page_height) ==
    IF page_width = 0 \/ page_height = 0 THEN Frac(3, 10)
    ELSE LET width_ratio == Frac(e.bbox_x2 - e.bbox_x1, page_width)
             height_ratio == Frac(e.bbox_y2 - e.bbox_y1, page_height)
             size_score == FracAdd(FracMul(width_ratio, Frac(7, 10)),
                                   FracMul(height_ratio, Frac(3, 10)))
         IN FracMin(Frac(1, 1), FracMul(size_score, Frac(2, 1)))

\* LABEL_HIERARCHY_WEIGHTS, in hundredths
LABEL_HIERARCHY_WEIGHTS(label) ==
    CASE label = "title" -> 100
      [] label \in {"sub_title", "subtitle"} -> 80
      [] label = "heading" -> 70
      [] label = "header" -> 65
      [] label \in {"text", "paragraph"} -> 30
      [] label \in {"table", "image", "figure", "formula", "equation"} -> 40
      [] label = "caption" -> 20
      [] label = "footer" -> 10
      [] label = "page_number" -> 5
      [] OTHER -> 30

label_hierarchy_weight(label) == Frac(LABEL_HIERARCHY_WEIGHTS(label), 100)

indentation_score(e, page_width) ==
    IF page_width = 0 THEN Frac(1, 2)
    ELSE IF 10 * e.bbox_x1 > 3 * page_width THEN Frac(0, 1)
    ELSE Frac(3 * page_width - 10 * e.bbox_x1, 3 * page_width)

\* spatial/grouping.py estimate_median_line_height, doubled; 20.0 when no
\* element has a positive height
median_line_height2(elems) ==
    IF PositiveHeights(elems) = <<>> THEN 40 ELSE Median2(PositiveHeights(elems))

\* prev and next are sequences of at most one element (None when empty)
whitespace_isolation_score(e, prev, next, median2) ==
    LET median_line_height == Frac(median2, 2)
        space_before ==
           IF prev # <<>> THEN Frac(Max2(0, e.bbox_y1 - prev[1].bbox_y2), 1)
           ELSE FracMul(median_line_height, Frac(3, 2))
        space_after ==
           IF next # <<>> THEN Frac(Max2(0, next[1].bbox_y1 - e.bbox_y2), 1)
           ELSE median_line_height
        median == IF median2 <= 0 THEN Frac(20, 1) ELSE median_line_height
        before_ratio == FracMul(space_before, Frac(median[2], median[1]))
        after_ratio == FracMul(space_after, Frac(median[2], median[1]))
        combined_ratio == FracAdd(FracMul(before_ratio, Frac(6, 10)),
                                  FracMul(after_ratio, Frac(4, 10)))
    IN FracMin(Frac(1, 1), FracMul(combined_ratio, Frac(1, 2)))

\* DEFAULT_SPATIAL_WEIGHTS, in hundredths
DEFAULT_SPATIAL_WEIGHTS(key) ==
    CASE key = "label" -> 40
      [] key = "whitespace" -> 25
      [] key = "size" -> 15
      [] key = "vertical" -> 10
      [] key = "indent" -> 10

spatial_weight(key) == Frac(DEFAULT_SPATIAL_WEIGHTS(key), 100)

combined_score(e, page_width, page_height, prev, next, median2) ==
    FracAdd(FracMul(label_hierarchy_weight(e.label), spatial_weight("label")),
    FracAdd(FracMul(whitespace_isolation_score(e, prev, next, median2),
                    spatial_weight("whitespace")),
    FracAdd(FracMul(size_importance_score(e, page_width, page_height),
                    spatial_weight("size")),
    FracAdd(FracMul(vertical_hierarchy_score(e, page_height),
                    spatial_weight("vertical")),
            FracMul(indentation_score(e, page_width),
                    spatial_weight("indent"))))))

\* the threshold ladder of predict_hierarchy_level
level_of_score(score) ==
    IF FracGt(score, Frac(80, 100)) THEN 0
    ELSE IF FracGt(score, Frac(60, 100)) THEN 1
    ELSE IF FracGt(score, Frac(40, 100)) THEN 2
    ELSE IF FracGt(score, Frac(25, 100)) THEN 3
    ELSE IF FracGt(score, Frac(15, 100)) THEN 4
    ELSE 5

predict_hierarchy_level(e, page_width, page_height, prev, next, median2) ==
    level_of_score(combined_score(e, page_width, page_height,
                                  prev, next, median2))

(***************************************************************************)
(* spatial/spatial_tree_builder.py: the pipeline                           *)
(***************************************************************************)
\* the level a "#"-header gives, <<>> for None
extract_markdown_level(text) ==
    LET stripped == Strip(text)
    IN IF /\ Len(stripped) >= 2
          /\ HashCount(stripped[1]) \in 1..6
          /\ stripped[2] \in SpaceTokens
       THEN <<HashCount(stripped[1]) - 1>>
       ELSE <<>>

\* the two levels added, not averaged
blend_levels_Sum(md_level, spatial_level) == md_level + spatial_level

\* int(md_level * 0.5 + spatial_level * 0.5)
blend_levels(md_level, spatial_level) == (md_level + spatial_level) \div 2

\* validate_element reading the level a previous run left in final_level
validate_element_FromFinal(e) ==
    LET spatial_level == IF e.final_level # <<>> THEN e.final_level[1]
                         ELSE IF e.spatial_level # <<>> THEN e.spatial_level[1]
                         ELSE 3
        md_level == extract_markdown_level(e.text_content)
    IN IF md_level # <<>>
       THEN IF Abs(md_level[1] - spatial_level) > 1
            THEN [e EXCEPT !.final_level =
                               <<blend_levels(md_level[1], spatial_level)>>,
                           !.level_source = <<"blended">>]
            ELSE [e EXCEPT !.final_level = <<spatial_level>>,
                           !.level_source = <<"spatial_validated">>]
       ELSE [e EXCEPT !.final_level = <<spatial_level>>,
                      !.level_source = <<"spatial_only">>]

validate_element(e) ==
    LET spatial_level == IF e.spatial_level # <<>> THEN e.spatial_level[1] ELSE 3
        md_level == extract_markdown_level(e.text_content)
    IN IF md_level # <<>>
       THEN IF Abs(md_level[1] - spatial_level) > 1
            THEN [e EXCEPT !.final_level =
                               <<blend_levels(md_level[1], spatial_level)>>,
                           !.level_source = <<"blended">>]
            ELSE [e EXCEPT !.final_level = <<spatial_level>>,
                           !.level_source = <<"spatial_validated">>]
       ELSE [e EXCEPT !.final_level = <<spatial_level>>,
                      !.level_source = <<"spatial_only">>]

validate_with_markdown_syntax(elems) ==
    [i \in DOMAIN elems |-> validate_element(elems[i])]

\* the else branch of phase 6
spatial_only(elems) ==
    [i \in DOMAIN elems |->
        [elems[i] EXCEPT
            !.final_level = <<IF elems[i].spatial_level # <<>>
                              THEN elems[i].spatial_level[1] ELSE 3>>,
            !.level_source = <<"spatial_only">>]]

predict_hierarchy_spatial(elems, page_dims) ==
    LET median2 == median_line_height2(elems)
    IN [i \in DOMAIN elems |->
          [elems[i] EXCEPT
              !.spatial_level =
                 <<predict_hierarchy_level(
                      elems[i], page_dims[1], page_dims[2],
                      IF i > 1 THEN <<elems[i - 1]>> ELSE <<>>,
                      IF i < Len(elems) THEN <<elems[i + 1]>> ELSE <<>>,
                      median2)>>]]

\* the arguments build_spatial_tree passes to hierarchical_thinning;
\* use_dynamic_gap is left at its default
pipeline_thinning_options(o) ==
    [preserve_barriers |-> TRUE, merge_text_to_paragraphs |-> TRUE,
     use_dynamic_gap |-> TRUE,
     gap_threshold_multiplier |-> o.thinning_gap_multiplier]

\* phase 1: <<current, removed as repeated, removed as noise>>
phase1_filters(layout_elements, o) ==
    IF o.use_filters THEN apply_all_filters(layout_elements)
    ELSE <<layout_elements, <<>>, <<>>>>

\* phase 2; the repetitions are counted on the unfiltered list
phase2_zones(current_elements, layout_elements, page_dims, o) ==
    IF o.use_zone_classification
    THEN classify_zones_batch(current_elements, page_dims, layout_elements)
    ELSE current_elements

\* phase 3: all pages in one call
phase3_reading_order(current_elements, o) ==
    IF o.use_reading_order
    THEN get_reading_order(current_elements, TRUE, TRUE)
    ELSE current_elements

\* phase 6
phase6_validation(current_elements, o) ==
    IF o.use_markdown_validation
    THEN validate_with_markdown_syntax(current_elements)
    ELSE spatial_only(current_elements)

\* phase 6.5
phase65_thinning(current_elements, o) ==
    IF o.use_thinning
    THEN hierarchical_thinning(current_elements, pipeline_thinning_options(o))
    ELSE current_elements

\* the returned dict: the tree and _pipeline_info (<<>> when the key is not
\* set); filter_stats is <<repeated, noise>> and thinning_stats is
\* <<nodes_before, nodes_after>>, each <<>> for the empty dict.  Phase 5
\* computes thresholds that nothing reads.
build_spatial_tree(layout_elements, o) ==
    IF layout_elements = <<>>
    THEN [tree |-> <<RootNode>>, pipeline_info |-> <<>>]
    ELSE
      LET page_dims == get_page_dimensions_from_elements(layout_elements)
          filtered == phase1_filters(layout_elements, o)
          zoned == phase2_zones(filtered[1], layout_elements, page_dims, o)
          ordered == phase3_reading_order(zoned, o)
          predicted == predict_hierarchy_spatial(ordered, page_dims)
          validated == phase6_validation(predicted, o)
          current_elements == phase65_thinning(validated, o)
      IN [tree |-> build_tree_from_elements(current_elements),
          pipeline_info |->
             <<[version |-> "spatial_v1",
                filters_applied |-> o.use_filters,
                filter_stats |->
                   IF o.use_filters
                   THEN <<Len(filtered[2]), Len(filtered[3])>> ELSE <<>>,
                zone_classification |-> o.use_zone_classification,
                reading_order |-> o.use_reading_order,
                markdown_validation |-> o.use_markdown_validation,
                adaptive_thresholds |-> o.use_adaptive_thresholds,
                thinning_applied |-> o.use_thinning,
                thinning_stats |->
                   IF o.use_thinning
                   THEN <<Len(validated), Len(current_elements)>> ELSE <<>>,
                elements_processed |-> Len(current_elements)]>>]

(***************************************************************************)
(* SpecPipe: a caller collects the elements of a document and calls        *)
(* build_spatial_tree once, with any combination of the stage flags.       *)
(***************************************************************************)
MaxPipeElems == 3

\* a line written as a "######" heading, two body lines 2 px apart, a title,
\* a speck in the corner labelled footer, and a running header on three pages
PipeDomain ==
    {Elem("text", 0, 0, 100, 10, 1, <<"######", " ", "Intro">>,
          <<"######", " ", "Intro">>),
     Elem("text", 0, 12, 100, 22, 1, <<"body">>, <<"body">>),
     Elem("text", 0, 24, 100, 34, 1, <<"L3">>, <<"L3">>),
     Elem("footer", 99, 40, 100, 41, 1, <<>>, <<>>),
     Elem("title", 0, 0, 100, 10, 1, <<"Intro">>, <<"Intro">>)}
    \cup {Elem("text", 0, 0, 100, 10, p, <<"Header", " ", d>>,
               <<"Header", " ", d>>) :
             <<p, d>> \in {<<1, "1">>, <<2, "2">>, <<3, "3">>}}

PipeOptions ==
    [use_filters : BOOLEAN, use_zone_classification : BOOLEAN,
     use_reading_order : BOOLEAN, use_markdown_validation : BOOLEAN,
     use_adaptive_thresholds : BOOLEAN, use_thinning : BOOLEAN,
     thinning_gap_multiplier : {2}]

InitPipe ==
    /\ elements = <<>>
    /\ options = <<>>
    /\ locals = <<>>
    /\ result = <<>>
    /\ pc = "input"

AddLayoutElement ==
    /\ pc = "input"
    /\ Len(elements) < MaxPipeElems
    /\ \E e \in PipeDomain :
          elements' = Append(elements,
                             [e EXCEPT !.src = <<Len(elements) + 1>>])
    /\ UNCHANGED <<options, locals, result, pc>>

CallBuildSpatialTree ==
    /\ pc = "input"
    /\ \E o \in PipeOptions :
          /\ options' = o
          /\ result' = build_spatial_tree(elements, o)
    /\ pc' = "returned"
    /\ UNCHANGED <<elements, locals>>

NextPipe == AddLayoutElement \/ CallBuildSpatialTree

SpecPipe == InitPipe /\ [][NextPipe]_vars

(***************************************************************************)
(* Properties of build_spatial_tree                                        *)
(***************************************************************************)
Returned == pc = "returned" /\ elements # <<>>

PipelineInfo == result.pipeline_info[1]

\* sum(filter_stats.values()), 0 for the empty dict
FilteredCount == SeqSum(PipelineInfo.filter_stats)

\* nodes_before - nodes_after, 0 when thinning did not run
AbsorbedCount ==
    IF PipelineInfo.thinning_stats = <<>> THEN 0
    ELSE PipelineInfo.thinning_stats[1] - PipelineInfo.thinning_stats[2]

C9_LevelsInRange ==
    pc = "returned" =>
       \A n \in DOMAIN result.tree :
          n > 1 => result.tree[n].level \in 0..5

\* a tree with a node whose level was blended with a markdown level and a
\* merged paragraph at the fallback level 3
C9_Witness ==
    /\ Returned
    /\ options.use_markdown_validation
    /\ \E n \in DOMAIN result.tree :
          /\ n > 1
          /\ result.tree[n].label = <<"paragraph">>
          /\ result.tree[n].level = 3
    /\ \E n \in DOMAIN result.tree :
          /\ n > 1
          /\ result.tree[n].label = <<"text">>
          /\ extract_markdown_level(result.tree[n].title) # <<>>
          /\ result.tree[n].level # 5

(***************************************************************************)
(* SpecMd: validate_with_markdown_syntax is handed elements whose          *)
(* spatial_level was predicted (0..5) or is absent.                        *)
(***************************************************************************)
MaxMdElems == 2

MdTexts ==
    {<<"#", " ", "Intro">>, <<"##", " ", "Intro">>, <<"######", " ", "Intro">>,
     <<" ", "#", "\n", "Intro">>, <<"#", "Intro">>, <<"#">>, <<"Intro">>}

MdLevels == {<<>>} \cup {<<l>> : l \in 0..5}

MdDomain ==
    {[Elem("text", 0, 0, 100, 10, 1, t, t) EXCEPT !.spatial_level = sl] :
        t \in MdTexts, sl \in MdLevels}

InitMd ==
    /\ elements = <<>>
    /\ options = <<>>
    /\ locals = <<>>
    /\ result = <<>>
    /\ pc = "input"

AddMdElement ==
    /\ pc = "input"
    /\ Len(elements) < MaxMdElems
    /\ \E e \in MdDomain :
          elements' = Append(elements,
                             [e EXCEPT !.src = <<Len(elements) + 1>>])
    /\ UNCHANGED <<options, locals, result, pc>>

CallValidateWithMarkdownSyntax ==
    /\ pc = "input"
    /\ result' = validate_with_markdown_syntax(elements)
    /\ pc' = "validated"
    /\ UNCHANGED <<elements, options, locals>>

NextMd == AddMdElement \/ CallValidateWithMarkdownSyntax

SpecMd == InitMd /\ [][NextMd]_vars

(***************************************************************************)
(* Properties of validate_with_markdown_syntax                             *)
(***************************************************************************)
\* the text, surrounding whitespace aside, starts with one to six "#" followed
\* by whitespace
HasMarkdownPrefix(text) ==
    /\ Len(text) >= 2
    /\ HashCount(text[1]) \in 1..6
    /\ text[2] \in SpaceTokens

\* round(n / 2) for n >= 0, ties to the even neighbour as Python's round does
RoundHalf(n) ==
    IF n % 2 = 0 THEN n \div 2
    ELSE IF ((n - 1) \div 2) % 2 = 0 THEN (n - 1) \div 2 ELSE (n + 1) \div 2

\* C11: an element whose text_content starts with 1 to 6 "#" and whitespace
\* has md_level = number of "#" - 1; when md_level and spatial_level differ by
\* more than 1 its final_level is round(0.5 * md_level + 0.5 * spatial_level)
\* and its level_source is blended (md_level 0 with spatial_level 3 gives 2),
\* otherwise final_level = spatial_level and level_source = spatial_validated;
\* an element without the prefix gets final_level = spatial_level and
\* level_source = spatial_only.
C11_BlendIsRoundedMean ==
    pc = "validated" =>
       \A i \in DOMAIN elements :
          LET e == elements[i]
              r == result[i]
              spatial_level == e.spatial_level[1]
              md_level == HashCount(Strip(e.text_content)[1]) - 1
          IN e.spatial_level # <<>> =>
               IF HasMarkdownPrefix(Strip(e.text_content))
               THEN IF Abs(md_level - spatial_level) > 1
                    THEN /\ r.final_level =
                               <<RoundHalf(md_level + spatial_level)>>
                         /\ r.level_source = <<"blended">>
                    ELSE /\ r.final_level = <<spatial_level>>
                         /\ r.level_source = <<"spatial_validated">>
               ELSE /\ r.final_level = <<spatial_level>>
                    /\ r.level_source = <<"spatial_only">>

\* no element reaches the tree builder: the input is empty or the filters
\* removed every element
NothingReachesBuilder ==
    \/ elements = <<>>
    \/ /\ options.use_filters
       /\ apply_all_filters(elements)[1] = <<>>

\* C12: whenever no element reaches the tree builder, the returned tree is
\* the synthetic root alone (level -1, no children) and its _pipeline_info
\* reports elements_processed = 0.
C12_EmptyTreeReportsZero ==
    (pc = "returned" /\ NothingReachesBuilder) =>
       /\ Len(result.tree) = 1
       /\ result.tree[1].node_id = <<"root">>
       /\ result.tree[1].level = -1
       /\ result.tree[1].children = <<>>
       /\ result.pipeline_info # <<>>
       /\ result.pipeline_info[1].elements_processed = 0

\* the part of C12 that concerns inputs emptied by the filters
C12_FilteredToNothingReportsZero ==
    (Returned /\ NothingReachesBuilder) =>
       /\ result.tree = <<RootNode>>
       /\ result.pipeline_info[1].elements_processed = 0

\* the keyword defaults of build_spatial_tree
DefaultOptions ==
    [use_filters |-> TRUE, use_zone_classification |-> TRUE,
     use_reading_order |-> TRUE, use_markdown_validation |-> TRUE,
     use_adaptive_thresholds |-> TRUE, use_thinning |-> FALSE,
     thinning_gap_multiplier |-> 2]

\* positive bbox area and page_number >= 1
ValidElement(e) ==
    /\ e.bbox_x2 > e.bbox_x1
    /\ e.bbox_y2 > e.bbox_y1
    /\ e.page_number >= 1

\* C13: for an input of exactly one valid element and default options the
\* tree is the root with exactly one child, at the level the default
\* thresholds give the element (the level it gets when the filters are off):
\* a lone element is never dropped by the filters.
C13_LoneElementKept ==
    (/\ pc = "returned"
     /\ Len(elements) = 1
     /\ ValidElement(elements[1])
     /\ options = DefaultOptions) =>
       /\ Len(result.tree) = 2
       /\ result.tree[1].children = <<2>>
       /\ result.tree[2].src = elements[1].src
       /\ result.tree[2].level =
             build_spatial_tree(
                elements, [DefaultOptions EXCEPT !.use_filters = FALSE]
             ).tree[2].level

(***************************************************************************)
(* spatial/hierarchy.py: calculate_adaptive_thresholds                     *)
(***************************************************************************)
FracSub(f, g) == FracAdd(f, <<0 - g[1], g[2]>>)

RECURSIVE InsertFrac(_, _)
InsertFrac(f, s) ==
    IF s = <<>> THEN <<f>>
    ELSE IF FracGt(Head(s), f) THEN <<f>> \o s
    ELSE <<Head(s)>> \o InsertFrac(f, Tail(s))

RECURSIVE SortFracs(_)
SortFracs(s) ==
    IF s = <<>> THEN <<>> ELSE InsertFrac(Head(s), SortFracs(Tail(s)))

\* np.percentile(scores, q): linear interpolation between the two order
\* statistics around position (n - 1) * q / 100
percentile(scores, q) ==
    LET sorted == SortFracs(scores)
        n == Len(sorted)
        lo == ((n - 1) * q) \div 100
        t == Frac(((n - 1) * q) % 100, 100)
    IN IF lo + 2 > n THEN sorted[n]
       ELSE FracAdd(sorted[lo + 1],
                    FracMul(FracSub(sorted[lo + 2], sorted[lo + 1]), t))

\* thresholds for levels 0..5 as <<t0, ..., t5>> computed from a list of scores
percentile_thresholds(scores) ==
    <<percentile(scores, 95), percentile(scores, 80), percentile(scores, 60),
      percentile(scores, 40), percentile(scores, 20), Frac(0, 1)>>

\* elem.get('spatial_score', 0.5): no stage of the pipeline sets the key, so
\* every element contributes the default
calculate_adaptive_thresholds(elems) ==
    IF elems = <<>>
    THEN <<Frac(80, 100), Frac(60, 100), Frac(40, 100), Frac(25, 100),
           Frac(15, 100), Frac(0, 1)>>
    ELSE percentile_thresholds([i \in DOMAIN elems |-> Frac(1, 2)])

(***************************************************************************)
(* Properties of the adaptive thresholds                                   *)
(***************************************************************************)
\* the elements that reach hierarchy prediction, in the order of phase 3
OrderedElements ==
    LET page_dims == get_page_dimensions_from_elements(elements)
        filtered == phase1_filters(elements, options)
        zoned == phase2_zones(filtered[1], elements, page_dims, options)
    IN phase3_reading_order(zoned, options)

\* the combined scores predict_hierarchy_spatial computes for them
DocumentScores ==
    LET elems == OrderedElements
        page_dims == get_page_dimensions_from_elements(elements)
        median2 == median_line_height2(elems)
    IN [i \in DOMAIN elems |->
          combined_score(elems[i], page_dims[1], page_dims[2],
                         IF i > 1 THEN <<elems[i - 1]>> ELSE <<>>,
                         IF i < Len(elems) THEN <<elems[i + 1]>> ELSE <<>>,
                         median2)]

\* the 95th, 80th, 60th, 40th, 20th and 0th percentiles of the scores
DocumentThresholds ==
    <<percentile(DocumentScores, 95), percentile(DocumentScores, 80),
      percentile(DocumentScores, 60), percentile(DocumentScores, 40),
      percentile(DocumentScores, 20), percentile(DocumentScores, 0)>>

\* the smallest k whose threshold the score exceeds, 5 when there is none
AdaptiveLevel(score, thresholds) ==
    LET ks == {k \in 0..5 : FracGt(score, thresholds[k + 1])}
    IN IF ks = {} THEN 5 ELSE CHOOSE k \in ks : \A j \in ks : k <= j

\* C14: with use_adaptive_thresholds on, the level of every element in the
\* returned tree is the smallest k whose threshold its score exceeds, the
\* thresholds being the 95th, 80th, 60th, 40th, 20th and 0th percentiles of
\* the scores of the current document (stated for runs without markdown
\* blending and thinning, where a node's level is its element's predicted
\* level).
C14_LevelsFollowPercentiles ==
    (/\ Returned
     /\ options.use_adaptive_thresholds
     /\ ~options.use_markdown_validation
     /\ ~options.use_thinning) =>
       LET walk == NonRootWalk(result.tree)
       IN /\ Len(walk) = Len(DocumentScores)
          /\ \A k \in DOMAIN walk :
                result.tree[walk[k]].level =
                   AdaptiveLevel(DocumentScores[k], DocumentThresholds)

\* what the code does instead: the switch changes nothing but the flag
\* echoed in _pipeline_info
C14_SwitchHasNoEffect ==
    Returned =>
       LET other == build_spatial_tree(
                       elements,
                       [options EXCEPT !.use_adaptive_thresholds = ~@])
       IN /\ result.tree = other.tree
          /\ result.pipeline_info[1].elements_processed =
                other.pipeline_info[1].elements_processed

(***************************************************************************)
(* SpecRep: the elements of a document whose pages are page_height pixels  *)
(* high go through filter_repeated_elements.  An element sits at 5%, 50%   *)
(* or 95% of the page height and carries a running text ("Header 1",       *)
(* "Header 2", ... by page) or the word "body".                            *)
(***************************************************************************)
MaxRepElems == 3

RepPageHeights == {100, 1000, 2400}

RepPages == {<<1, "1">>, <<2, "2">>, <<3, "3">>}

RepTexts(d) == {<<"Header", " ", d>>, <<"body">>}

RepElem(page_height, percent, pd, text) ==
    Elem("text", 0, (percent * page_height) \div 100,
         100, (percent * page_height) \div 100 + 2, pd[1], text, text)

InitRep ==
    /\ elements = <<>>
    /\ options \in {[page_height |-> h] : h \in RepPageHeights}
    /\ locals = <<>>
    /\ result = <<>>
    /\ pc = "input"

AddRepElement ==
    /\ pc = "input"
    /\ Len(elements) < MaxRepElems
    /\ \E percent \in {5, 50, 95}, pd \in RepPages :
          \E text \in RepTexts(pd[2]) :
             elements' =
                Append(elements,
                       [RepElem(options.page_height, percent, pd, text)
                           EXCEPT !.src = <<Len(elements) + 1>>])
    /\ UNCHANGED <<options, locals, result, pc>>

CallFilterRepeated ==
    /\ pc = "input"
    /\ result' = filter_repeated_elements(elements)
    /\ pc' = "filtered"
    /\ UNCHANGED <<elements, options, locals>>

NextRep == AddRepElement \/ CallFilterRepeated

SpecRep == InitRep /\ [][NextRep]_vars

(***************************************************************************)
(* Properties of the repetition filter                                     *)
(***************************************************************************)
\* the elements with the same normalised text as e
SameTextGroup(e) ==
    SelectSeq(elements,
              LAMBDA f : normalize_text_for_matching(f.text_content)
                            = normalize_text_for_matching(e.text_content))

\* the group of e is on at least 3 pages and its mean y1 relative to the page
\* height is below 0.15 or above 0.85
InRepeatedMarginGroup(e) ==
    LET group == SameTextGroup(e)
        pages == {group[i].page_number : i \in DOMAIN group}
        sum_y == SeqSum([i \in DOMAIN group |-> group[i].bbox_y1])
        count == Len(group)
    IN /\ Cardinality(pages) >= 3
       /\ \/ 100 * sum_y < 15 * options.page_height * count
          \/ 100 * sum_y > 85 * options.page_height * count

\* C15: the repetition filter removes an element if and only if its
\* normalised text belongs to a group on at least 3 distinct pages whose mean
\* y1 relative to the height of the page is below 0.15 or above 0.85; the
\* other elements are kept in input order, and the removed ones are the
\* count reported as repeated.
C15_RemovesMarginGroupsOnly ==
    pc = "filtered" =>
       /\ result[1] = SelectSeq(elements, LAMBDA e : ~InRepeatedMarginGroup(e))
       /\ result[2] = SelectSeq(elements, LAMBDA e : InRepeatedMarginGroup(e))

(***************************************************************************)
(* SpecRerun: build_spatial_tree is called on a list of element records,   *)
(* and then called again with the same flags, either on the same records   *)
(* (which the first call has annotated in place) or on an equal fresh list. *)
(***************************************************************************)
MaxRerunElems == 2

\* the elements as they are after phase 6, before thinning
validated_elements(layout_elements, o) ==
    LET page_dims == get_page_dimensions_from_elements(layout_elements)
        filtered == phase1_filters(layout_elements, o)
        zoned == phase2_zones(filtered[1], layout_elements, page_dims, o)
        ordered == phase3_reading_order(zoned, o)
        predicted == predict_hierarchy_spatial(ordered, page_dims)
    IN phase6_validation(predicted, o)

\* the caller's records after a call.  classify_zones_batch builds new dicts,
\* so with zone classification on the later stages annotate copies; without
\* it get_reading_order, predict_hierarchy_spatial and the validation write
\* id, zone_priority, spatial_level, final_level and level_source into the
\* caller's dicts.  hierarchical_thinning builds new dicts for what it
\* merges.  (filter_reason, predicted_level and markdown_level are written
\* too and read by nothing.)
annotate(layout_elements, validated) ==
    [i \in DOMAIN layout_elements |->
       IF \E k \in DOMAIN validated :
             validated[k].src = layout_elements[i].src
       THEN validated[CHOOSE k \in DOMAIN validated :
                       validated[k].src = layout_elements[i].src]
       ELSE layout_elements[i]]

annotated_records(layout_elements, o) ==
    IF layout_elements = <<>> \/ o.use_zone_classification
    THEN layout_elements
    ELSE annotate(layout_elements, validated_elements(layout_elements, o))

\* the records of PipeDomain on page 1: a markdown header, two body lines, a
\* footer fragment and a title
RerunDomain == {e \in PipeDomain : e.text_content # <<"Header", " ", "1">>
                                   /\ e.page_number = 1}

InitRerun ==
    /\ elements = <<>>
    /\ options = <<>>
    /\ locals = <<>>
    /\ result = <<>>
    /\ pc = "input"

AddRerunElement ==
    /\ pc = "input"
    /\ Len(elements) < MaxRerunElems
    /\ \E e \in RerunDomain :
          elements' = Append(elements,
                             [e EXCEPT !.src = <<Len(elements) + 1>>])
    /\ UNCHANGED <<options, locals, result, pc>>

\* a call of build_spatial_tree: the first on the collected records, a
\* later one with the same flags on the same records (same) or on a list
\* equal to the one first passed
RunBuildSpatialTree ==
    /\ pc \in {"input", "annotated"}
    /\ \E o \in PipeOptions, same \in BOOLEAN :
          /\ pc = "annotated" => o = options
          /\ pc = "input" => same
          /\ options' = o
          /\ result' = build_spatial_tree(IF same THEN elements
                                          ELSE locals.input, o)
          /\ elements' = IF same THEN annotated_records(elements, o)
                          ELSE elements
          /\ locals' = IF pc = "input"
                        THEN [input |-> elements, first |-> result']
                        ELSE locals
          /\ pc' = IF pc = "input" THEN "annotated"
                   ELSE IF same THEN "rerun" ELSE "rerun_fresh"

NextRerun ==
    \/ AddRerunElement
    \/ RunBuildSpatialTree

SpecRerun == InitRerun /\ [][NextRerun]_vars

(***************************************************************************)
(* Properties of repeated runs                                             *)
(***************************************************************************)
\* C16: a second run with the same flags returns the tree and _pipeline_info
\* of the first run, on an equal list and on the records the first run
\* annotated.
C16_RerunReturnsSameTree ==
    pc \in {"rerun", "rerun_fresh"} => result = locals.first

\* a second run on records that carry the first run's ids and levels, one of
\* them blended with a markdown level, in a tree of at least three nodes
C16_Witness ==
    /\ pc = "rerun"
    /\ Len(result.tree) >= 3
    /\ \E i \in DOMAIN elements :
          /\ locals.input[i].final_level = <<>>
          /\ elements[i].level_source = <<"blended">>
          /\ elements[i].id # <<>>

(***************************************************************************)
(* utils/bbox_utils.py: the extractor                                      *)
(*                                                                         *)
(* A page of OCR output is a sequence of grounding blocks.  A block is its *)
(* label, its <|det|> payload and the text that follows the tag.  A        *)
(* payload is the outcome of eval on it: a list of items (an item is a     *)
(* sequence of numbers, a box when it has four), a text eval cannot        *)
(* evaluate ("invalid_coords": NameError) or the text "exit()", on which   *)
(* eval raises SystemExit.                                                 *)
(***************************************************************************)
\* the lines text.split('\n')[0]
RECURSIVE FirstLine(_)
FirstLine(text) ==
    IF text = <<>> \/ Head(text) = "\n" THEN <<>>
    ELSE <<Head(text)>> \o FirstLine(Tail(text))

\* re.sub(r'^#{1,6}\s+', '', first_line)
RemoveMarkdownPrefix(line) ==
    IF /\ Len(line) >= 2
       /\ HashCount(line[1]) \in 1..6
       /\ line[2] \in SpaceTokens
    THEN LStrip(Tail(line))
    ELSE line

extract_header_text(text_segment, label) ==
    LET text == Strip(text_segment)
        first_line == Strip(FirstLine(text))
        cleaned == Strip(SelectSeq(RemoveMarkdownPrefix(first_line),
                                   LAMBDA tok : tok \notin TagTokens))
    IN IF text = <<>> THEN <<label>>
       ELSE IF cleaned # <<>> THEN cleaned ELSE <<label>>

\* int(v / 999.0 * size)
scale_to_pixels(v, size) == (v * size) \div 999

\* the elements the loop over the boxes appends before an item that is not a
\* box raises
RECURSIVE BoxElements(_, _, _, _, _, _, _)
BoxElements(coords, label, text_content, text_full, img_width, img_height, page_number) ==
    IF coords = <<>> \/ Len(Head(coords)) # 4 THEN <<>>
    ELSE LET box == Head(coords)
         IN <<Elem(label,
                   scale_to_pixels(box[1], img_width),
                   scale_to_pixels(box[2], img_height),
                   scale_to_pixels(box[3], img_width),
                   scale_to_pixels(box[4], img_height),
                   page_number, text_content, text_full)>>
            \o BoxElements(Tail(coords), label, text_content, text_full,
                           img_width, img_height, page_number)

\* one pass of the loop over the grounding references; a SystemExit leaves
\* the function, any other exception skips the rest of the block
RECURSIVE ExtractBlocks(_, _, _, _, _)
ExtractBlocks(blocks, img_width, img_height, page_number, v2) ==
    IF blocks = <<>> THEN [raised |-> FALSE, layout_elements |-> <<>>]
    ELSE LET b == Head(blocks)
             rest == ExtractBlocks(Tail(blocks), img_width, img_height,
                                   page_number, v2)
             text_full == IF v2 THEN Strip(b.text) ELSE <<>>
             text_content == IF v2 THEN extract_header_text(b.text, b.label)
                             ELSE <<>>
             emitted == IF b.det.kind = "list"
                        THEN BoxElements(b.det.coords, b.label, text_content,
                                         text_full, img_width, img_height,
                                         page_number)
                        ELSE <<>>
         IN IF b.det.kind = "exit"
            THEN [raised |-> TRUE, layout_elements |-> <<>>]
            ELSE [raised |-> rest.raised,
                  layout_elements |->
                     IF rest.raised THEN <<>>
                     ELSE emitted \o rest.layout_elements]

\* the deprecated extractor: no text, no page_number (the stages read a
\* missing page_number as 1)
extract_layout_coordinates(blocks, img_width, img_height) ==
    ExtractBlocks(blocks, img_width, img_height, 1, FALSE)

extract_layout_coordinates_v2(blocks, img_width, img_height, page_number) ==
    ExtractBlocks(blocks, img_width, img_height, page_number, TRUE)

(***************************************************************************)
(* SpecExtract: the OCR output of one page is extracted, by either         *)
(* extractor, and the elements of extract_layout_coordinates_v2 are handed *)
(* to build_spatial_tree with the default flags, filters on or off.        *)
(***************************************************************************)
MaxBlocks == 2

\* one box, two boxes, a box 5/999 of the page wide, a box with its corners
\* swapped, a box followed by a triple, a triple followed by a box, a text
\* that is no expression, and "exit()"
ExtractPayloads ==
    {[kind |-> "list", coords |-> <<<<100, 100, 500, 200>>>>],
     [kind |-> "list",
      coords |-> <<<<100, 300, 500, 400>>, <<100, 500, 500, 600>>>>],
     [kind |-> "list", coords |-> <<<<100, 100, 105, 200>>>>],
     [kind |-> "list", coords |-> <<<<500, 500, 100, 100>>>>],
     [kind |-> "list", coords |-> <<<<100, 100, 500, 200>>, <<1, 2, 3>>>>],
     [kind |-> "list", coords |-> <<<<1, 2, 3>>, <<100, 100, 500, 200>>>>],
     [kind |-> "name", coords |-> <<>>],
     [kind |-> "exit", coords |-> <<>>]}

ExtractTexts == {<<"#", " ", "Intro", "\n", "body">>, <<>>}

ExtractCalls ==
    [img_width : {100}, img_height : {100}, page_number : {0, 1}]

InitExtract ==
    /\ elements = <<>>
    /\ options \in ExtractCalls
    /\ locals = <<>>
    /\ result = <<>>
    /\ pc = "input"

\* text.find locates a block by the text of its tag; the pages considered
\* carry each tag once
AddBlock ==
    /\ pc = "input"
    /\ Len(elements) < MaxBlocks
    /\ \E det \in ExtractPayloads, text \in ExtractTexts :
          /\ \A i \in DOMAIN elements : elements[i].det # det
          /\ elements' = Append(elements,
                                [label |-> "text", det |-> det, text |-> text])
    /\ UNCHANGED <<options, locals, result, pc>>

CallExtractLayoutCoordinates ==
    /\ pc = "input"
    /\ result' = extract_layout_coordinates(elements, options.img_width,
                                            options.img_height)
    /\ pc' = "extracted_v1"
    /\ UNCHANGED <<elements, options, locals>>

CallExtractLayoutCoordinatesV2 ==
    /\ pc = "input"
    /\ result' = extract_layout_coordinates_v2(
                    elements, options.img_width, options.img_height,
                    options.page_number)
    /\ pc' = "extracted"
    /\ UNCHANGED <<elements, options, locals>>

CallBuildSpatialTreeOnExtracted ==
    /\ pc = "extracted"
    /\ ~result.raised
    /\ \E use_filters \in BOOLEAN :
          LET layout_elements ==
                 [i \in DOMAIN result.layout_elements |->
                     [result.layout_elements[i] EXCEPT !.src = <<i>>]]
          IN /\ locals' = [layout_elements |-> layout_elements,
                           use_filters |-> use_filters]
             /\ result' = build_spatial_tree(
                             layout_elements,
                             [DefaultOptions EXCEPT !.use_filters = use_filters])
    /\ pc' = "built"
    /\ UNCHANGED <<elements, options>>

NextExtract ==
    \/ AddBlock
    \/ CallExtractLayoutCoordinates
    \/ CallExtractLayoutCoordinatesV2
    \/ CallBuildSpatialTreeOnExtracted

SpecExtract == InitExtract /\ [][NextExtract]_vars

(***************************************************************************)
(* Properties of the extractor                                             *)
(***************************************************************************)
\* C17: an element with a bbox of non-positive area or a page_number below 1
\* is rejected at the boundary: the extractor emits none, none reaches the
\* stages of build_spatial_tree, and none is a node of the returned tree,
\* with filters on or off.
C17_InvalidRejectedAtBoundary ==
    /\ (pc \in {"extracted", "extracted_v1"} /\ ~result.raised) =>
          \A i \in DOMAIN result.layout_elements :
             ValidElement(result.layout_elements[i])
    /\ pc = "built" =>
          \A n \in DOMAIN result.tree :
             n > 1 =>
                /\ result.tree[n].bbox[3] > result.tree[n].bbox[1]
                /\ result.tree[n].bbox[4] > result.tree[n].bbox[2]
                /\ result.tree[n].page_number >= 1

\* the tree half of C17 on its own
C17_NoInvalidNodeInTree ==
    pc = "built" =>
       \A n \in DOMAIN result.tree :
          n > 1 =>
             /\ result.tree[n].bbox[3] > result.tree[n].bbox[1]
             /\ result.tree[n].bbox[4] > result.tree[n].bbox[2]
             /\ result.tree[n].page_number >= 1

\* every item of the payload is a box of four numbers
WellFormed(b) ==
    /\ b.det.kind = "list"
    /\ \A k \in DOMAIN b.det.coords : Len(b.det.coords[k]) = 4

\* the number of elements the extractor owes a block: one per box, none for
\* a payload that is not a list of boxes
RECURSIVE OwedCounts(_)
OwedCounts(blocks) ==
    IF blocks = <<>> THEN <<>>
    ELSE <<IF WellFormed(Head(blocks)) THEN Len(Head(blocks).det.coords) ELSE 0>>
         \o OwedCounts(Tail(blocks))

\* C18: when a payload does not parse as a list of four-number boxes, the
\* extractor raises no error, emits no element for that block and still
\* emits one element per box for every other block, in order.
C18_MalformedBlockSkippedWhole ==
    pc \in {"extracted", "extracted_v1"} =>
       /\ ~result.raised
       /\ Len(result.layout_elements) = SeqSum(OwedCounts(elements))
       /\ result.layout_elements =
             ExtractBlocks(SelectSeq(elements, WellFormed),
                           options.img_width, options.img_height,
                           IF pc = "extracted" THEN options.page_number ELSE 1,
                           pc = "extracted").layout_elements

(***************************************************************************)
(* spatial/grouping.py: detect_columns_projection                          *)
(***************************************************************************)
bin_width == 5

Column(x1, x2, index) ==
    [x1 |-> x1, x2 |-> x2, width |-> x2 - x1, index |-> index]

\* the projection histogram, bins numbered from 0
projection_histogram(elems, page_width) ==
    LET num_bins == page_width \div bin_width + 1
    IN [b \in 0..(num_bins - 1) |->
          Cardinality({i \in DOMAIN elems :
             /\ Max2(0, elems[i].bbox_x1 \div bin_width) <= b
             /\ b <= Min2(num_bins - 1, elems[i].bbox_x2 \div bin_width)})]

\* the bins at which the scan enters a valley: an empty bin with no empty bin
\* before it
valley_starts(histogram) ==
    {b \in DOMAIN histogram :
        /\ histogram[b] = 0
        /\ b = 0 \/ histogram[b - 1] # 0}

\* the bin that ends the valley entered at bin b: the next bin that is not
\* empty, -1 when the valley runs to the last bin and is never closed
valley_end(histogram, b) ==
    LET later == {e \in DOMAIN histogram : e > b /\ histogram[e] # 0}
    IN IF later = {} THEN -1
       ELSE CHOOSE e \in later : \A f \in later : e <= f

\* the centres of the valleys of at least min_gap_bins bins, left to right
scan_valleys(histogram, min_gap_bins) ==
    SortInts(SetToSeq(
       {((b + valley_end(histogram, b)) \div 2) * bin_width :
           b \in {v \in valley_starts(histogram) :
                     /\ valley_end(histogram, v) # -1
                     /\ valley_end(histogram, v) - v >= min_gap_bins}}))

\* the columns between the valleys, the last one reaching page_width
RECURSIVE columns_from_valleys(_, _, _, _)
columns_from_valleys(valleys, prev_x, page_width, columns) ==
    IF valleys = <<>>
    THEN Append(columns, Column(prev_x, page_width, Len(columns)))
    ELSE columns_from_valleys(
            Tail(valleys), Head(valleys), page_width,
            Append(columns, Column(prev_x, Head(valleys), Len(columns))))

\* min_gap_ratio at its default 0.05
detect_columns_projection(elems, page_width) ==
    IF elems = <<>> \/ page_width <= 0
    THEN <<Column(0, page_width, 0)>>
    ELSE LET histogram == projection_histogram(elems, page_width)
             min_gap_width == (page_width * 5) \div 100
             min_gap_bins == min_gap_width \div bin_width
             valleys == scan_valleys(histogram, min_gap_bins)
             columns == columns_from_valleys(valleys, 0, page_width, <<>>)
             wide == SelectSeq(columns,
                               LAMBDA c : 100 * c.width >= 15 * page_width)
         IN IF valleys = <<>> THEN <<Column(0, page_width, 0)>>
            ELSE IF wide = <<>> THEN <<Column(0, page_width, 0)>>
            ELSE [k \in DOMAIN wide |-> [wide[k] EXCEPT !.index = k - 1]]

(***************************************************************************)
(* SpecCols: the elements of a page 800 px wide, taken from a left and a   *)
(* right group, are handed to detect_columns_projection.                   *)
(***************************************************************************)
MaxColElems == 3

ColPageWidths == {800}

\* <<x1, x2>> of the boxes: left group within [0, 380], right group within
\* [420, 800]
ColBoxes ==
    {<<0, 380>>, <<0, 200>>, <<200, 380>>, <<0, 360>>, <<240, 380>>,
     <<420, 800>>, <<420, 600>>, <<600, 800>>, <<440, 800>>}

InitCols ==
    /\ elements = <<>>
    /\ options \in {[page_width |-> w] : w \in ColPageWidths}
    /\ locals = <<>>
    /\ result = <<>>
    /\ pc = "input"

AddColElement ==
    /\ pc = "input"
    /\ Len(elements) < MaxColElems
    /\ \E box \in ColBoxes :
          elements' = Append(elements,
                             Elem("text", box[1], 20 * Len(elements),
                                  box[2], 20 * Len(elements) + 10, 1,
                                  <<"body">>, <<"body">>))
    /\ UNCHANGED <<options, locals, result, pc>>

CallDetectColumnsProjection ==
    /\ pc = "input"
    /\ result' = detect_columns_projection(elements, options.page_width)
    /\ pc' = "detected"
    /\ UNCHANGED <<elements, options, locals>>

NextCols == AddColElement \/ CallDetectColumnsProjection

SpecCols == InitCols /\ [][NextCols]_vars

(***************************************************************************)
(* Properties of detect_columns_projection                                 *)
(***************************************************************************)
\* the elements left of x = a (their x2 <= a) and the others
LeftOf(a) == {i \in DOMAIN elements : elements[i].bbox_x2 <= a}
RightOf(a) == {i \in DOMAIN elements : elements[i].bbox_x2 > a}

\* the right edges after which a strip begins that no element covers
StripStarts ==
    {a \in {elements[i].bbox_x2 : i \in DOMAIN elements} :
        /\ RightOf(a) # {}
        /\ \A i \in RightOf(a) : elements[i].bbox_x1 > a}

\* the elements fall into two groups separated by one uncovered strip at
\* least 0.05 * page_width wide, each group at least 0.15 * page_width wide
TwoGroupsWithStrip ==
    /\ Cardinality(StripStarts) = 1
    /\ LET a == CHOOSE x \in StripStarts : TRUE
           b == SeqMin([i \in DOMAIN elements |->
                          IF i \in RightOf(a) THEN elements[i].bbox_x1
                          ELSE options.page_width])
           left_x1 == SeqMin([i \in DOMAIN elements |-> elements[i].bbox_x1])
           right_x2 == SeqMax([i \in DOMAIN elements |-> elements[i].bbox_x2])
       IN /\ 100 * (b - a) >= 5 * options.page_width
          /\ 100 * (a - left_x1) >= 15 * options.page_width
          /\ 100 * (right_x2 - b) >= 15 * options.page_width

\* C19: for two groups separated by such a strip, detect_columns_projection
\* returns exactly two columns, indexed 0 and 1 from left to right.
C19_TwoColumnsDetected ==
    (pc = "detected" /\ TwoGroupsWithStrip) =>
       /\ Len(result) = 2
       /\ result[1].index = 0
       /\ result[2].index = 1
       /\ result[1].x2 <= result[2].x1

(***************************************************************************)
(* utils/bbox_utils.py: normalize_bbox and denormalize_bbox                *)
(*                                                                         *)
(* int(v / size * 999) and int(v / 999.0 * size) are computed in doubles;  *)
(* for the page sides of BboxPages the double result has the same integer  *)
(* part as the exact quotient for every coordinate of the page.            *)
(***************************************************************************)
normalize_bbox(bbox, img_width, img_height) ==
    [x1 |-> (bbox.x1 * 999) \div img_width,
     y1 |-> (bbox.y1 * 999) \div img_height,
     x2 |-> (bbox.x2 * 999) \div img_width,
     y2 |-> (bbox.y2 * 999) \div img_height]

denormalize_bbox(bbox, img_width, img_height) ==
    [x1 |-> (bbox.x1 * img_width) \div 999,
     y1 |-> (bbox.y1 * img_height) \div 999,
     x2 |-> (bbox.x2 * img_width) \div 999,
     y2 |-> (bbox.y2 * img_height) \div 999]

(***************************************************************************)
(* SpecBbox: a pixel bbox inside a page is normalised and then             *)
(* denormalised at the same page size.                                     *)
(***************************************************************************)
\* <<img_width, img_height>>: a thumbnail, the size used by the unit test,
\* a page one pixel over the normalised range, the default page image
BboxPages == {<<100, 100>>, <<1000, 800>>, <<1001, 1001>>, <<1600, 2400>>}

InitBbox ==
    /\ elements = <<>>
    /\ options \in {[img_width |-> p[1], img_height |-> p[2]] : p \in BboxPages}
    /\ locals = <<>>
    /\ result = <<>>
    /\ pc = "input"

\* a box from any column x1 of the page, starting at the top, just below the
\* middle or at the bottom, empty or reaching the far edges
ChooseBbox ==
    /\ pc = "input"
    /\ elements = <<>>
    /\ \E x1 \in 0..options.img_width,
          y1 \in {0, options.img_height \div 2 + 1, options.img_height} :
          \E x2 \in {x1, options.img_width}, y2 \in {y1, options.img_height} :
             elements' = <<[x1 |-> x1, y1 |-> y1, x2 |-> x2, y2 |-> y2]>>
    /\ UNCHANGED <<options, locals, result, pc>>

CallNormalizeBbox ==
    /\ pc = "input"
    /\ elements # <<>>
    /\ locals' = normalize_bbox(elements[1], options.img_width,
                                options.img_height)
    /\ pc' = "normalized"
    /\ UNCHANGED <<elements, options, result>>

CallDenormalizeBbox ==
    /\ pc = "normalized"
    /\ result' = denormalize_bbox(locals, options.img_width,
                                  options.img_height)
    /\ pc' = "denormalized"
    /\ UNCHANGED <<elements, options, locals>>

NextBbox == ChooseBbox \/ CallNormalizeBbox \/ CallDenormalizeBbox

SpecBbox == InitBbox /\ [][NextBbox]_vars

(***************************************************************************)
(* Properties of the bbox round trip                                       *)
(***************************************************************************)
\* C20: for every page size and every integer pixel bbox inside the page,
\* normalize_bbox followed by denormalize_bbox at the same page size returns
\* each coordinate within 1 px of the original.
C20_RoundTripWithinOnePixel ==
    pc = "denormalized" =>
       /\ Abs(result.x1 - elements[1].x1) <= 1
       /\ Abs(result.y1 - elements[1].y1) <= 1
       /\ Abs(result.x2 - elements[1].x2) <= 1
       /\ Abs(result.y2 - elements[1].y2) <= 1

\* what the round trip does keep: no coordinate grows, and the loss stays
\* within 1 px on a page of at most 1000 px a side
C20_LossBoundedOnSmallPages ==
    pc = "denormalized" =>
       /\ result.x1 <= elements[1].x1 /\ result.x2 <= elements[1].x2
       /\ result.y1 <= elements[1].y1 /\ result.y2 <= elements[1].y2
       /\ options.img_width <= 1000 =>
             /\ elements[1].x1 - result.x1 <= 1
             /\ elements[1].x2 - result.x2 <= 1
       /\ options.img_height <= 1000 =>
             /\ elements[1].y1 - result.y1 <= 1
             /\ elements[1].y2 - result.y2 <= 1

(***************************************************************************)
(* SpecTreeSteps: build_tree_from_elements run one loop iteration at a     *)
(* time, so that the stack is visible after every step.  result is the     *)
(* sequence of TreeNode objects made so far, locals.stack the stack (as    *)
(* positions in result) and locals.i the position of the next element.     *)
(***************************************************************************)
\* one iteration of the for loop, on element i; keeps the while loop's guard
\* with > in place of >=
tree_step_PopGreater(elems, i, nodes, stack) ==
    LET node == TreeNode(elems[i], i - 1)
        keep == {k \in DOMAIN stack :
                   k = 1 \/ nodes[stack[k]].level <= node.level}
        popped == SubSeq(stack, 1, CHOOSE k \in keep : \A m \in keep : m <= k)
        parent == popped[Len(popped)]
        at == Len(nodes) + 1
    IN [nodes |-> append_child(Append(nodes, node), parent, at),
        stack |-> Append(popped, at)]

\* one iteration of the for loop, on element i
tree_step(elems, i, nodes, stack) ==
    LET node == TreeNode(elems[i], i - 1)
        popped == pop_stack(nodes, stack, node.level)
        parent == popped[Len(popped)]
        at == Len(nodes) + 1
    IN [nodes |-> append_child(Append(nodes, node), parent, at),
        stack |-> Append(popped, at)]

InitTreeSteps ==
    /\ elements = <<>>
    /\ options = <<>>
    /\ locals = <<>>
    /\ result = <<>>
    /\ pc = "input"

AddStepElement ==
    /\ pc = "input"
    /\ Len(elements) < MaxTreeElems
    /\ \E e \in TreeElemDomain :
          elements' = Append(elements,
                             [e EXCEPT !.src = <<Len(elements) + 1>>])
    /\ UNCHANGED <<options, locals, result, pc>>

\* root = TreeNode(...); stack = [root]; node_counter = 0
CreateRoot ==
    /\ pc = "input"
    /\ result' = <<RootNode>>
    /\ locals' = [i |-> 1, stack |-> <<1>>]
    /\ pc' = "loop"
    /\ UNCHANGED <<elements, options>>

TreeStep ==
    /\ pc = "loop"
    /\ locals.i <= Len(elements)
    /\ LET st == tree_step(elements, locals.i, result, locals.stack)
       IN /\ result' = st.nodes
          /\ locals' = [i |-> locals.i + 1, stack |-> st.stack]
    /\ UNCHANGED <<elements, options, pc>>

ReturnRoot ==
    /\ pc = "loop"
    /\ locals.i > Len(elements)
    /\ pc' = "built"
    /\ UNCHANGED <<elements, options, locals, result>>

NextTreeSteps ==
    \/ AddStepElement
    \/ CreateRoot
    \/ TreeStep
    \/ ReturnRoot

SpecTreeSteps == InitTreeSteps /\ [][NextTreeSteps]_vars

(***************************************************************************)
(* Properties of the steps of build_tree_from_elements                     *)
(***************************************************************************)
\* the steps build the tree the call returns
TreeStepsAgreeWithCall ==
    pc = "built" => result = build_tree_from_elements(elements)

\* the node whose children hold n
ParentOf(nodes, n) ==
    CHOOSE p \in DOMAIN nodes :
       \E k \in DOMAIN nodes[p].children : nodes[p].children[k] = n

\* the nearest node made before n, the root aside, whose level is strictly
\* smaller than n's; the root when there is none
NearestSmaller(nodes, n) ==
    LET smaller == {j \in 2..(n - 1) : nodes[j].level < nodes[n].level}
    IN IF smaller = {} THEN 1
       ELSE CHOOSE j \in smaller : \A m \in smaller : m <= j

\* C21: after every step the newest node is the last child of the nearest
\* earlier node of strictly smaller level (of the root when there is none),
\* the stack holds nodes of strictly increasing level from bottom to top
\* with the root at the bottom, and every non-root node's level is strictly
\* greater than its parent's.
C21_StackAndParents ==
    pc \in {"loop", "built"} =>
       LET stack == locals.stack
       IN /\ stack[1] = 1
          /\ \A k \in 1..(Len(stack) - 1) :
                result[stack[k]].level < result[stack[k + 1]].level
          /\ \A n \in 2..Len(result) :
                /\ ParentOf(result, n) = NearestSmaller(result, n)
                /\ result[n].level > result[ParentOf(result, n)].level
                /\ Cardinality({p \in DOMAIN result :
                      \E k \in DOMAIN result[p].children :
                         result[p].children[k] = n}) = 1
          /\ Len(result) > 1 =>
                LET newest == Len(result)
                    siblings == result[ParentOf(result, newest)].children
                IN /\ siblings[Len(siblings)] = newest
                   /\ stack[Len(stack)] = newest

\* after a step that popped two nodes off a stack of three: a level-5 node
\* under a lower one under a lower one, then a node that goes to the root
C21_Witness ==
    /\ pc = "loop"
    /\ Len(result) = 4
    /\ result[3].level > result[2].level
    /\ result[4].level <= result[2].level
    /\ locals.stack = <<1, 4>>
    /\ ParentOf(result, 3) = 2

(***************************************************************************)
(* SpecZones: get_reading_order on elements of several zones, among them   *)
(* boxes whose pairwise decisions form a cycle inside one zone and a title *)
(* block that lies below everything else.                                  *)
(***************************************************************************)
MaxZoneElems == 4

ZoneDomain ==
    {ROElem(b, z) : b \in NestedBoxes, z \in {<<>>, <<"footer">>}}
    \cup {ROElem(<<0, 60, 380, 100>>, <<"title_block">>)}

AddZoneElement ==
    /\ pc = "input"
    /\ Len(elements) < MaxZoneElems
    /\ \E e \in ZoneDomain :
          elements' = Append(elements,
                             [e EXCEPT !.src = <<Len(elements) + 1>>])
    /\ UNCHANGED <<options, locals, result, pc>>

NextZones ==
    \/ AddZoneElement
    \/ CallReadingOrder
    \/ BreakCycle
    \/ TopologicalSort

SpecZones == InitRO /\ [][NextZones]_vars

(***************************************************************************)
(* Properties of the zone order                                            *)
(***************************************************************************)
\* the edge m -> n joins elements of different zone priority
CrossZone(elems, m, n) ==
    zone_priority_of(elems[m]) # zone_priority_of(elems[n])

\* C22: with zone priority and cycle breaking on, no cycle that
\* detect_cycles reports holds two elements of different zone priority,
\* every edge between zones of the graph as built is still in the graph
\* that is sorted, and in the returned list zone priorities never decrease.
C22_ZoneOrderRespected ==
    (options.include_zone_priority /\ options.break_cycles_enabled) =>
       /\ pc = "graph_built" =>
             /\ \A c \in Range(detect_cycles(locals.graph)) :
                   \A i, j \in DOMAIN c :
                      ~CrossZone(locals.elems, c[i], c[j])
             /\ \A m, n \in DOMAIN locals.built :
                   (HasEdge(locals.built, m, n)
                      /\ CrossZone(locals.elems, m, n))
                   => HasEdge(locals.graph, m, n)
       /\ Sorted =>
             \A p, q \in DOMAIN result :
                p < q => zone_priority_of(result[p])
                            <= zone_priority_of(result[q])

\* a list sorted after a cycle was cut inside one zone, with the title
\* block, which lies lowest on the page, returned first and a footer last
C22_Witness ==
    /\ Sorted
    /\ options.include_zone_priority /\ options.break_cycles_enabled
    /\ locals.graph # locals.built
    /\ Len(result) = 4
    /\ result[1].zone = <<"title_block">>
    /\ result[1].src # <<1>>
    /\ result[4].zone = <<"footer">>
    /\ result[4].bbox_y2 < result[1].bbox_y1

(***************************************************************************)
(* Properties of the list get_reading_order returns                        *)
(***************************************************************************)
\* the nodes Kahn's loop releases, in the order of their release
released_by_kahn(graph, elems) ==
    LET in_degree == in_degree_of(graph)
        ready == SelectSeq([n \in DOMAIN graph |-> n],
                           LAMBDA n : in_degree[n] = 0)
    IN kahn(graph, elems,
            [in_degree |-> in_degree, queue |-> SortByKey(elems, ready)],
            <<>>)

\* C23: the returned list is a permutation of the input, every element once,
\* with or without cycles and cycle breaking; the nodes Kahn's loop never
\* releases follow the released ones in (y1, x1) order.
C23_ReturnsPermutation ==
    pc = "done" =>
       /\ Len(result) = Len(elements)
       /\ \A i \in DOMAIN elements :
             Cardinality({k \in DOMAIN result :
                             result[k].src = elements[i].src}) = 1
       /\ \A k \in DOMAIN result :
             LET e == elements[result[k].src[1]]
             IN [result[k] EXCEPT !.id = <<>>, !.zone_priority = <<>>]
                   = [e EXCEPT !.id = <<>>, !.zone_priority = <<>>]
       /\ Len(elements) >= 2 =>
             LET released == released_by_kahn(locals.graph, locals.elems)
             IN /\ \A k \in DOMAIN released :
                      result[k].src = <<released[k]>>
                /\ \A p, q \in (Len(released) + 1)..Len(result) :
                      p < q => KeyLeq(locals.elems, result[p].src[1],
                                      result[q].src[1])

\* a list returned with cycle breaking off for a graph with a cycle: Kahn's
\* loop released nothing and all three nodes were appended
C23_Witness ==
    /\ Sorted
    /\ ~options.break_cycles_enabled
    /\ HasCycle(locals.graph)
    /\ Len(result) = 3
    /\ released_by_kahn(locals.graph, locals.elems) = <<>>

(***************************************************************************)
(* SpecBreak: get_reading_order on boxes that share their top-left corner, *)
(* whose pairwise decisions form cycles, with break_cycles running on: a   *)
(* pass of its loop that can be taken is taken.                            *)
(***************************************************************************)
MaxBreakElems == 3

BreakDomain ==
    {ROElem(b, <<>>) : b \in NestedBoxes}
    \cup {ROElem(<<0, 0, 10, 10>>, <<"title_block">>)}

AddBreakElement ==
    /\ pc = "input"
    /\ Len(elements) < MaxBreakElems
    /\ \E e \in BreakDomain :
          elements' = Append(elements,
                             [e EXCEPT !.src = <<Len(elements) + 1>>])
    /\ UNCHANGED <<options, locals, result, pc>>

NextBreak ==
    \/ AddBreakElement
    \/ CallReadingOrder
    \/ BreakCycle
    \/ TopologicalSort

SpecBreak ==
    /\ InitRO
    /\ [][NextBreak]_vars
    /\ WF_vars(BreakCycle)

(***************************************************************************)
(* Properties of the loop of break_cycles                                  *)
(***************************************************************************)
\* the edges of a graph, as pairs <<source, target>>
EdgesOf(graph) ==
    {<<m, graph[m][k]>> : <<m, k>> \in
        {<<m, k>> \in (DOMAIN graph) \X (1..Len(graph)) : k \in DOMAIN graph[m]}}

EdgeCount(graph) == SeqSum([m \in DOMAIN graph |-> Len(graph[m])])

\* the edges of a cycle as detect_cycles reports it, the closing edge included
CycleEdges(cycle) ==
    {<<cycle[i], cycle[(i % Len(cycle)) + 1]>> : i \in DOMAIN cycle}

\* a pass of the loop of break_cycles is being taken
PassOfLoop == pc = "graph_built" /\ locals' # locals

\* C24: every pass of the loop of break_cycles removes at least one edge of
\* the first detected cycle, so the number of edges strictly decreases; the
\* loop is left exactly when detect_cycles reports no cycle, and a loop that
\* is entered is left.
C24_PassRemovesCycleEdge ==
       [][/\ PassOfLoop =>
              /\ detect_cycles(locals.graph) # <<>>
              /\ EdgeCount(locals'.graph) < EdgeCount(locals.graph)
              /\ EdgesOf(locals'.graph) \subseteq EdgesOf(locals.graph)
              /\ (EdgesOf(locals.graph) \ EdgesOf(locals'.graph))
                    \cap CycleEdges(detect_cycles(locals.graph)[1]) # {}
          /\ (pc = "graph_built" /\ pc' = "done"
                /\ options.break_cycles_enabled)
                => detect_cycles(locals.graph) = <<>>
          /\ (pc = "graph_built" /\ options.break_cycles_enabled
                /\ detect_cycles(locals.graph) # <<>>)
                => pc' = "graph_built"]_vars

LoopEntered == pc = "graph_built" /\ options.break_cycles_enabled

LoopLeft == LoopEntered /\ detect_cycles(locals.graph) = <<>>

C24_BreakCyclesTerminates ==
    /\ C24_PassRemovesCycleEdge
    /\ LoopEntered ~> LoopLeft

\* the loop about to be left after a pass: the graph as built had a cycle,
\* an edge is gone and detect_cycles reports nothing more
C24_Witness ==
    /\ LoopLeft
    /\ detect_cycles(locals.built) # <<>>
    /\ EdgeCount(locals.built) - EdgeCount(locals.graph) >= 1

(***************************************************************************)
(* SpecWorst: get_reading_order on boxes whose pairwise decisions form     *)
(* cycles, with equal and with different top edges.                        *)
(***************************************************************************)
MaxWorstElems == 4

\* a tall box, a box above and to the right of it, a box inside its column:
\* the three form a cycle and have three different top edges
CycleBoxes == {<<0, 10, 10, 50>>, <<20, 0, 30, 10>>, <<0, 20, 10, 40>>}

WorstDomain == {ROElem(b, <<>>) : b \in NestedBoxes \cup CycleBoxes}

AddWorstElement ==
    /\ pc = "input"
    /\ Len(elements) < MaxWorstElems
    /\ \E e \in WorstDomain :
          elements' = Append(elements,
                             [e EXCEPT !.src = <<Len(elements) + 1>>])
    /\ UNCHANGED <<options, locals, result, pc>>

NextWorst ==
    \/ AddWorstElement
    \/ CallReadingOrder
    \/ BreakCycle
    \/ TopologicalSort

SpecWorst == InitRO /\ [][NextWorst]_vars

(***************************************************************************)
(* Properties of one pass of the loop of break_cycles                      *)
(***************************************************************************)
\* source.y1 - target.y1 of the edge m -> n
UpwardScore(elems, edge) == elems[edge[1]].bbox_y1 - elems[edge[2]].bbox_y1

\* C25: a pass of the loop removes exactly one edge; it is an edge of the
\* first detected cycle whose source.y1 - target.y1 is maximal in that
\* cycle, the first such edge in cycle order; every other edge stays, in
\* its place in its list.
C25_RemovesWorstEdgeOnly ==
    [][PassOfLoop =>
         LET cycle == detect_cycles(locals.graph)[1]
             edge(i) == <<cycle[i], cycle[(i % Len(cycle)) + 1]>>
             removed == EdgesOf(locals.graph) \ EdgesOf(locals'.graph)
         IN /\ Cardinality(removed) = 1
            /\ EdgeCount(locals'.graph) = EdgeCount(locals.graph) - 1
            /\ \E i \in DOMAIN cycle :
                  /\ removed = {edge(i)}
                  /\ \A j \in DOMAIN cycle :
                        UpwardScore(locals.elems, edge(j))
                           <= UpwardScore(locals.elems, edge(i))
                  /\ \A j \in 1..(i - 1) :
                        UpwardScore(locals.elems, edge(j))
                           < UpwardScore(locals.elems, edge(i))
            /\ \A m \in DOMAIN locals.graph :
                  locals'.graph[m] =
                     SelectSeq(locals.graph[m],
                               LAMBDA t : <<m, t>> \notin removed)
            /\ locals'.elems = locals.elems
      ]_vars

\* after one pass on a cycle with different top edges: the edge that is gone
\* went upward, from a box to a box that starts higher on the page
C25_Witness ==
    /\ pc = "graph_built"
    /\ options.break_cycles_enabled
    /\ EdgeCount(locals.built) - EdgeCount(locals.graph) = 1
    /\ \E edge \in EdgesOf(locals.built) \ EdgesOf(locals.graph) :
          UpwardScore(locals.elems, edge) > 0

(***************************************************************************)
(* SpecPair: should_read_before on a pair of elements.  result holds the   *)
(* value returned for (elements[1], elements[2]).                          *)
(***************************************************************************)
\* boxes 100 wide and 10 high, side by side or half a box apart, on the
\* same line, 2 px or 20 px lower; a box 4 high; zone priority unset or 0
PairBoxes ==
    {<<x1, y1, x1 + 100, y1 + h>> :
        x1 \in {0, 50, 100}, y1 \in {0, 2, 20}, h \in {4, 10}}

PairDomain ==
    {[ROElem(b, <<>>) EXCEPT !.zone_priority = zp] :
        b \in PairBoxes, zp \in {<<>>, <<0>>}}

InitPair ==
    /\ elements = <<>>
    /\ options = <<>>
    /\ locals = <<>>
    /\ result = <<>>
    /\ pc = "input"

AddPairElement ==
    /\ pc = "input"
    /\ Len(elements) < 2
    /\ \E e \in PairDomain :
          elements' = Append(elements,
                             [e EXCEPT !.src = <<Len(elements) + 1>>])
    /\ UNCHANGED <<options, locals, result, pc>>

CallShouldReadBefore ==
    /\ pc = "input"
    /\ Len(elements) = 2
    /\ result' = should_read_before(elements[1], elements[2])
    /\ pc' = "decided"
    /\ UNCHANGED <<elements, options, locals>>

NextPair == AddPairElement \/ CallShouldReadBefore

SpecPair == InitPair /\ [][NextPair]_vars

(***************************************************************************)
(* Properties of should_read_before                                        *)
(***************************************************************************)
\* the pair has equal zone priority and horizontal overlap ratio above 0.3
SameColumnPair ==
    /\ pc = "decided"
    /\ zone_priority_of(elements[1]) = zone_priority_of(elements[2])
    /\ LET h == calculate_horizontal_overlap(elements[1], elements[2])
       IN 10 * h[1] > 3 * h[2]

\* C26: a pair of equal zone priority with horizontal overlap ratio above
\* 0.3 is decided by the y-centres alone, the smaller first, however small
\* their difference.
C26_SameColumnByYCentre ==
    (SameColumnPair /\ center_y2(elements[1]) # center_y2(elements[2])) =>
       result = (center_y2(elements[1]) < center_y2(elements[2]))

\* the same for pairs whose y-centres are more than 5 px apart
C26_SameColumnBeyondFivePixels ==
    (SameColumnPair
       /\ Abs(center_y2(elements[1]) - center_y2(elements[2])) > 10) =>
       result = (center_y2(elements[1]) < center_y2(elements[2]))

(***************************************************************************)
(* spatial/zone_classifier.py: the ZoneClassification that                 *)
(* classify_zone_heuristic returns, with its confidence (in hundredths)    *)
(* and method.  A rule's result is <<>> for None.                          *)
(***************************************************************************)
ZoneClassification(zone, confidence, method) ==
    [zone |-> zone, confidence |-> confidence, method |-> method]

label_result_of(e) ==
    IF classify_by_label(e) = "" THEN <<>>
    ELSE <<ZoneClassification(classify_by_label(e), 80, "heuristic_label")>>

pattern_result_of(e) ==
    LET zone == classify_by_text_pattern(e)
    IN IF zone = "" THEN <<>>
       ELSE <<ZoneClassification(
                 zone,
                 CASE zone = "caption" -> 90
                   [] zone = "page_number" -> 85
                   [] zone = "section_heading" -> 80
                   [] zone = "abstract" -> 85,
                 "heuristic_pattern")>>

position_result_of(e, page_dims) ==
    LET zone == classify_by_position(e, page_dims)
    IN IF zone = "" THEN <<>>
       ELSE <<ZoneClassification(
                 IF zone = "footnote_low" THEN "footnote" ELSE zone,
                 CASE zone = "page_number" -> 85
                   [] zone = "footer" -> 70
                   [] zone = "header" -> 70
                   [] zone = "footnote_low" -> 60,
                 "heuristic_position")>>

geometry_result_of(e, page_dims) ==
    LET zone == classify_by_geometry(e, page_dims)
    IN IF zone = "" THEN <<>>
       ELSE IF zone = "figure"
            THEN <<ZoneClassification("figure", 90, "heuristic_label")>>
       ELSE <<ZoneClassification("equation", 80, "heuristic_geometry")>>

repetition_result_of(e, layout_elements) ==
    LET zone == repetition_zone(
                   layout_elements,
                   normalize_text_for_matching(e.text_content), 3)
    IN IF zone \in {"header", "footer"}
       THEN <<ZoneClassification(zone, 95, "heuristic_repetition")>>
       ELSE <<>>

\* the cascade with the text pattern tried before the label
zone_classification_PatternFirst(e, page_dims, layout_elements) ==
    LET repeated == repetition_result_of(e, layout_elements)
        label_result == label_result_of(e)
        pattern_result == pattern_result_of(e)
        position_result == position_result_of(e, page_dims)
        geometry_result == geometry_result_of(e, page_dims)
    IN IF repeated # <<>> THEN repeated[1]
       ELSE IF pattern_result # <<>> /\ pattern_result[1].confidence >= 80
            THEN pattern_result[1]
       ELSE IF label_result # <<>> /\ label_result[1].confidence >= 80
            THEN label_result[1]
       ELSE IF position_result # <<>> /\ position_result[1].confidence >= 70
            THEN position_result[1]
       ELSE IF geometry_result # <<>> /\ geometry_result[1].confidence >= 70
            THEN geometry_result[1]
       ELSE IF label_result # <<>> THEN label_result[1]
       ELSE IF pattern_result # <<>> THEN pattern_result[1]
       ELSE IF position_result # <<>> THEN position_result[1]
       ELSE IF geometry_result # <<>> THEN geometry_result[1]
       ELSE ZoneClassification("main_text", 50, "fallback")

\* classify_zone_heuristic, priorities 1 to 6 and the fallback
zone_classification(e, page_dims, layout_elements) ==
    LET repeated == repetition_result_of(e, layout_elements)
        label_result == label_result_of(e)
        pattern_result == pattern_result_of(e)
        position_result == position_result_of(e, page_dims)
        geometry_result == geometry_result_of(e, page_dims)
    IN IF repeated # <<>> THEN repeated[1]
       ELSE IF label_result # <<>> /\ label_result[1].confidence >= 80
            THEN label_result[1]
       ELSE IF pattern_result # <<>> /\ pattern_result[1].confidence >= 80
            THEN pattern_result[1]
       ELSE IF position_result # <<>> /\ position_result[1].confidence >= 70
            THEN position_result[1]
       ELSE IF geometry_result # <<>> /\ geometry_result[1].confidence >= 70
            THEN geometry_result[1]
       ELSE IF label_result # <<>> THEN label_result[1]
       ELSE IF pattern_result # <<>> THEN pattern_result[1]
       ELSE IF position_result # <<>> THEN position_result[1]
       ELSE IF geometry_result # <<>> THEN geometry_result[1]
       ELSE ZoneClassification("main_text", 50, "fallback")

(***************************************************************************)
(* SpecClass: the elements of a document on a page 100 x 100 are           *)
(* classified one by one against the repetitions of the whole list.        *)
(***************************************************************************)
MaxClassElems == 3

\* body text in mid-page on three pages, body text near the bottom, a title
\* that reads like a caption, a caption and a line at the top, an equation
\* near the bottom, a line where the page number goes, a line in mid-page
ClassDomain ==
    {Elem("text", 0, 40, 100, 50, p, <<"body">>, <<"body">>) : p \in 1..3}
    \cup
    {Elem("text", 0, 86, 100, 90, 1, <<"body">>, <<"body">>),
     Elem("title", 0, 40, 100, 50, 1, <<"Figure", " ", "1">>,
          <<"Figure", " ", "1">>),
     Elem("text", 0, 0, 100, 5, 1, <<"Figure", " ", "1">>,
          <<"Figure", " ", "1">>),
     Elem("text", 0, 0, 100, 5, 1, <<"L1">>, <<"L1">>),
     Elem("equation", 0, 86, 100, 90, 1, <<"L2">>, <<"L2">>),
     Elem("text", 45, 93, 55, 95, 1, <<"L3">>, <<"L3">>),
     Elem("text", 0, 40, 100, 50, 1, <<"L4">>, <<"L4">>)}

InitClass ==
    /\ elements = <<>>
    /\ options = <<100, 100>>
    /\ locals = <<>>
    /\ result = <<>>
    /\ pc = "input"

AddClassElement ==
    /\ pc = "input"
    /\ Len(elements) < MaxClassElems
    /\ \E e \in ClassDomain :
          elements' = Append(elements,
                             [e EXCEPT !.src = <<Len(elements) + 1>>])
    /\ UNCHANGED <<options, locals, result, pc>>

CallClassifyZoneHeuristic ==
    /\ pc = "input"
    /\ result' = [i \in DOMAIN elements |->
                    zone_classification(elements[i], options, elements)]
    /\ pc' = "classified"
    /\ UNCHANGED <<elements, options, locals>>

NextClass == AddClassElement \/ CallClassifyZoneHeuristic

SpecClass == InitClass /\ [][NextClass]_vars

(***************************************************************************)
(* Properties of classify_zone_heuristic                                   *)
(***************************************************************************)
\* the results of the rules for element i in the order repetition, label,
\* text pattern, position, geometry, each with the floor of its rule
RuleResults(i) ==
    <<[found |-> repetition_result_of(elements[i], elements), floor |-> 0],
      [found |-> label_result_of(elements[i]), floor |-> 80],
      [found |-> pattern_result_of(elements[i]), floor |-> 80],
      [found |-> position_result_of(elements[i], options), floor |-> 70],
      [found |-> geometry_result_of(elements[i], options), floor |-> 70]>>

MeetsFloor(r) == r.found # <<>> /\ r.found[1].confidence >= r.floor

\* the first rule of rules that satisfies Test; 0 when none does
FirstRule(rules, Test(_)) ==
    IF \E k \in DOMAIN rules : Test(rules[k])
    THEN CHOOSE k \in DOMAIN rules :
            Test(rules[k]) /\ \A m \in 1..(k - 1) : ~Test(rules[m])
    ELSE 0

Matched(r) == r.found # <<>>

\* the zone the pipeline's classifier gives is the zone of the result
ZoneAgreesWithResult ==
    pc = "classified" =>
       \A i \in DOMAIN elements :
          result[i].zone
             = classify_zone_heuristic(elements[i], options, elements)

\* C27 as stated: the result is that of the first rule whose confidence
\* meets its floor, and main_text with confidence 0.5 and method fallback
\* when no rule meets its floor.
C27_FallbackWhenNoFloorMet ==
    pc = "classified" =>
       \A i \in DOMAIN elements :
          LET rules == RuleResults(i)
              first == FirstRule(rules, MeetsFloor)
          IN result[i] = IF first # 0 THEN rules[first].found[1]
                         ELSE ZoneClassification("main_text", 50, "fallback")

\* C27 (amended): the result is that of the first rule whose confidence
\* meets its floor; when no rule meets its floor it is the result of the
\* first rule that matched at all, with that rule's own confidence and
\* method, and main_text with confidence 0.5 and method fallback only when
\* no rule matched.
C27_FirstMeetingFloorElseFirstMatch ==
    pc = "classified" =>
       \A i \in DOMAIN elements :
          LET rules == RuleResults(i)
              first == FirstRule(rules, MeetsFloor)
              any == FirstRule(rules, Matched)
          IN result[i] = IF first # 0 THEN rules[first].found[1]
                         ELSE IF any # 0 THEN rules[any].found[1]
                         ELSE ZoneClassification("main_text", 50, "fallback")

\* a list classified with a title that reads like a caption, which gets
\* the label's zone, and a body line near the bottom, which gets the
\* footnote of the position rule although its confidence is below the floor
C27_Witness ==
    /\ pc = "classified"
    /\ \E i, j \in DOMAIN elements :
          /\ elements[i].label = "title"
          /\ pattern_result_of(elements[i]) # <<>>
          /\ result[i] = ZoneClassification("title_block", 80,
                                            "heuristic_label")
          /\ result[j] = ZoneClassification("footnote", 60,
                                            "heuristic_position")

(***************************************************************************)
(* Page order of the tree returned by build_spatial_tree                   *)
(***************************************************************************)
\* the page numbers of the non-root nodes in pre-order
WalkPages(nodes) ==
    [k \in DOMAIN NonRootWalk(nodes) |->
        nodes[NonRootWalk(nodes)[k]].page_number]

NonDecreasing(s) == \A j, k \in DOMAIN s : j < k => s[j] <= s[k]

\* the caller passes the elements page by page, of more than one page
MultiPageInput ==
    /\ NonDecreasing([i \in DOMAIN elements |-> elements[i].page_number])
    /\ \E i, j \in DOMAIN elements :
          elements[i].page_number # elements[j].page_number

\* C28: with use_reading_order on and a multi-page input, the non-root
\* nodes in pre-order have non-decreasing page_number, with thinning on or
\* off.
C28_PagesNonDecreasing ==
    (Returned /\ options.use_reading_order /\ MultiPageInput)
       => NonDecreasing(WalkPages(result.tree))

\* with thinning on, hierarchical_thinning regroups the elements by page
PagesNonDecreasingAfterThinning ==
    (Returned /\ options.use_reading_order /\ options.use_thinning
              /\ MultiPageInput)
       => NonDecreasing(WalkPages(result.tree))

(***************************************************************************)
(* SpecPara: build_spatial_tree on text lines and a title that may carry   *)
(* a spatial_score of their own, with thinning and markdown validation on  *)
(* or off.                                                                 *)
(***************************************************************************)
MaxParaElems == 3

\* a spatial_score as the caller may pass it, in hundredths
ParaScore == 70

\* three body lines 2 px apart, a line far below them and a title
ParaDomain ==
    {[e EXCEPT !.spatial_score = s] :
        e \in {Elem("text", 0, 0, 100, 10, 1, <<"L1">>, <<"L1">>),
               Elem("text", 0, 12, 100, 22, 1, <<"body">>, <<"body">>),
               Elem("text", 0, 24, 100, 34, 1, <<"L3">>, <<"L3">>),
               Elem("text", 0, 80, 100, 90, 1, <<"L4">>, <<"L4">>),
               Elem("title", 0, 40, 100, 50, 1, <<"Intro">>, <<"Intro">>)},
        s \in {<<>>, <<ParaScore>>}}

ParaOptions ==
    [use_filters : {FALSE}, use_zone_classification : {FALSE},
     use_reading_order : {TRUE}, use_markdown_validation : BOOLEAN,
     use_adaptive_thresholds : {FALSE}, use_thinning : BOOLEAN,
     thinning_gap_multiplier : {2}]

AddParaElement ==
    /\ pc = "input"
    /\ Len(elements) < MaxParaElems
    /\ \E e \in ParaDomain :
          elements' = Append(elements,
                             [e EXCEPT !.src = <<Len(elements) + 1>>])
    /\ UNCHANGED <<options, locals, result, pc>>

\* locals keeps the elements as they enter phase 6.5
CallBuildSpatialTreeOnLines ==
    /\ pc = "input"
    /\ \E o \in ParaOptions :
          /\ options' = o
          /\ result' = build_spatial_tree(elements, o)
          /\ locals' = validated_elements(elements, o)
    /\ pc' = "returned"
    /\ UNCHANGED elements

NextPara == AddParaElement \/ CallBuildSpatialTreeOnLines

SpecPara == InitPipe /\ [][NextPara]_vars

\* the element of locals that tree node n was made from alone
Constituents(n) == SelectSeq(locals, LAMBDA e : e.src[1] \in Range(n.src))

\* C29: in the returned tree every paragraph node has level 3 and
\* spatial_score 0 whatever final_level, spatial_level and spatial_score its
\* constituents had, and every other node has the final_level of its
\* element.
C29_ParagraphsTakeFallbackLevel ==
    Returned =>
       \A k \in 2..Len(result.tree) :
          LET n == result.tree[k]
          IN IF n.label = <<"paragraph">>
             THEN /\ n.level = 3
                  /\ n.spatial_score = 0
                  /\ Len(n.src) > 1
             ELSE /\ Len(Constituents(n)) = 1
                  /\ Constituents(n)[1].final_level = <<n.level>>

\* a tree with a paragraph whose constituents all had a final_level other
\* than 3 and a spatial_score, next to an unmerged element
C29_Witness ==
    /\ Returned
    /\ \E k, m \in 2..Len(result.tree) :
          /\ result.tree[k].label = <<"paragraph">>
          /\ \A i \in DOMAIN Constituents(result.tree[k]) :
                /\ Constituents(result.tree[k])[i].final_level # <<3>>
                /\ Constituents(result.tree[k])[i].final_level # <<>>
                /\ Constituents(result.tree[k])[i].spatial_score
                      = <<ParaScore>>
          /\ result.tree[m].label # <<"paragraph">>
          /\ result.tree[m].level # 3

(***************************************************************************)
(* SpecIdem: merge_text_blocks_in_page is applied to the nodes of one      *)
(* page and then to its own output, with the same gap threshold and the    *)
(* same barrier labels.                                                    *)
(***************************************************************************)
MaxIdemElems == 4

\* text lines 2 px apart of which the second is too far right of the third
\* to merge with it while their union with the first is not, a line 30 px
\* below, an equation and a footer
IdemDomain ==
    {Elem("text", 30, 0, 130, 10, 1, <<"L1">>, <<"L1">>),
     Elem("text", 50, 12, 150, 22, 1, <<"L2">>, <<"L2">>),
     Elem("text", 0, 24, 90, 34, 1, <<"L3">>, <<"L3">>),
     Elem("text", 0, 36, 90, 46, 1, <<"L4">>, <<"L4">>),
     Elem("text", 0, 76, 90, 86, 1, <<"body">>, <<"body">>),
     Elem("equation", 0, 12, 100, 22, 1, <<"E">>, <<"E">>),
     Elem("footer", 0, 90, 100, 95, 1, <<"page">>, <<"page">>)}

\* four times the gap threshold (5 px, 40 px) and the barrier labels
IdemOptions ==
    [gap_threshold4 : {20, 160}, barrier_labels : {BarrierLabels, {}}]

AddIdemElement ==
    /\ pc = "input"
    /\ Len(elements) < MaxIdemElems
    /\ \E e \in IdemDomain :
          elements' = Append(elements,
                             [e EXCEPT !.src = <<Len(elements) + 1>>])
    /\ UNCHANGED <<options, locals, result, pc>>

CallMergeTextBlocksInPage ==
    /\ pc = "input"
    /\ \E o \in IdemOptions :
          /\ options' = o
          /\ result' = merge_text_blocks_in_page(elements, o.gap_threshold4,
                                                 o.barrier_labels)
    /\ pc' = "merged"
    /\ UNCHANGED <<elements, locals>>

\* the second application, to the output of the first
CallMergeTextBlocksInPageAgain ==
    /\ pc = "merged"
    /\ locals' = merge_text_blocks_in_page(result, options.gap_threshold4,
                                           options.barrier_labels)
    /\ pc' = "merged_again"
    /\ UNCHANGED <<elements, options, result>>

NextIdem ==
    \/ AddIdemElement
    \/ CallMergeTextBlocksInPage
    \/ CallMergeTextBlocksInPageAgain

SpecIdem == InitPipe /\ [][NextIdem]_vars

\* C30: merge_text_blocks_in_page applied to its own output returns that
\* output unchanged: no paragraph is merged again and two text elements
\* the first pass left adjacent still fail the merge predicate.
C30_MergeIsIdempotent ==
    pc = "merged_again" =>
       /\ locals = result
       /\ \A i \in 1..(Len(result) - 1) :
             ~can_merge_text_blocks(result[i], result[i + 1],
                                    options.gap_threshold4)

\* a second pass over an output that holds a paragraph followed by a text
\* line that the paragraph's box would merge with, and two text lines left
\* adjacent
C30_Witness ==
    /\ pc = "merged_again"
    /\ Len(result) < Len(elements)
    /\ \E i \in 1..(Len(result) - 1) :
          /\ result[i].label = "paragraph"
          /\ result[i + 1].label = "text"
          /\ can_merge_text_blocks([result[i] EXCEPT !.label = "text"],
                                   result[i + 1], options.gap_threshold4)
    /\ \E i \in 1..(Len(result) - 1) :
          result[i].label = "text" /\ result[i + 1].label = "text"

=============================================================================
